---- MODULE Spec2Model ----
(***************************************************************************)
(* A model of maybrain's brainObj (src/mayBrainTools.py): the adjacency    *)
(* matrix and its thresholding into an edge list, the networkx graph G the *)
(* analysis methods work on, sub-brain extraction and hub identification.  *)
(*                                                                         *)
(* Numbers.  Weights and thresholds are floats in the source; the model    *)
(* holds them as integers counted in tenths (3 stands for 0.3, -11 for the *)
(* default threshold -1.1).  Only comparisons, sorting and copying are     *)
(* applied to them in the matrix operations, so the unit does not matter.   *)
(* numpy's nan is the value NaN, which no comparison accepts.  The hub      *)
(* scores, quotients of sums, are kept as exact fractions.                  *)
(***************************************************************************)
EXTENDS Integers, Sequences, FiniteSets, TLC

\* ------------------------------------------------------------------ bounds
\* number of rows (and columns) of a loaded adjacency matrix, and of nodes
NumNodes == 3
\* a loaded matrix holds at most this many finite entries, the rest are NA
MaxFinite == 2
\* largest totalEdges argument tried
MaxTotalEdges == 2
\* the graph G is given at most this many edges
MaxEdges == 2
\* at most this many nodes are given the property
MaxTagged == 2
\* number of nodes of the graphs hub identification is tried on
HubNodes == 6
\* an adjacency file has at most this many lines before its data
MaxHeaderLines == 2
\* a properties file has at most this many lines after its name line
MaxFileLines == 2
\* robustness is not called again once the log has more lines than this
MaxLogRows == 3
\* contiguousspread is called with at most this many steps
MaxSteps == 2
\* contiguousspread is not called again once a node's list of linked nodes
\* is longer than this
MaxLinked == 3
\* nor once more than this many nodes are degenerating
MaxToxic == 1

\* --------------------------------------------------------------- constants
\* np.nan, the missing-value sentinel (placed below every number used)
NaN == -1000
\* applyThreshold's default tVal, -1.1
DefaultTVal == -11
\* checkrobustnessNew's default t0low, -1.0
DefaultT0Low == -10
\* the entry to_numpy_matrix gives an edge without a weight, 1.0
DefaultWeight == 10
\* an edge of G without a 'weight' attribute ("no weight found")
NoW == -2000

Nodes == 0 .. (NumNodes - 1)

VARIABLES
    adjMat,     \* self.adjMat: [n |-> rows, a |-> the entries, row by row], or NoneMat
    directed,   \* self._directed
    edgeInds,   \* self.edgeInds: sequence of <<i, j>>
    threshold,  \* self.threshold
    attrs,      \* the names of the attributes the object currently has
    G,          \* self.G: [nodes, props, edges], see EmptyGraph
    sub,        \* the brain the last makeSubBrain call returned, see NoSub
    ret,        \* the value the last call returned, where it is a number: <<num, den>>
    hubs,       \* self.hubs: a list of positions in self.G.nodes()
    nodeData,   \* the 'linkedNodes' and 'degenerating' attributes of self.G.node
    hl,         \* the highlight object last constructed, see NoHighlight
    files,      \* the robustness log and its .old copy on disk, see NoFiles
    susc,       \* the locals of the neuronsusceptibility call under way, see NoSusc
    dg,         \* the locals of the degenerate / degenerateNew call under way, see NoDeg
    call,       \* the last method called, its arguments and printed locals
    raised      \* the exception the last call ended with, or "none"

vars == <<adjMat, directed, edgeInds, threshold, attrs, G, sub, ret, hubs, nodeData, hl,
         files, dg, susc, call, raised>>

\* what the thresholding operations leave alone, and what the graph ones do
graphVars == <<G, sub, ret, hubs, nodeData, hl, files, dg, susc>>
matrixVars == <<directed, edgeInds, threshold>>

\* ------------------------------------------------------------ numpy values
IsNaN(v) == v = NaN

\* a >= b as numpy evaluates it: False as soon as one side is nan
Ge(a, b) == ~IsNaN(a) /\ ~IsNaN(b) /\ a >= b

\* An n x n array is held as the sequence of its n * n entries in row-major
\* order (numpy's own layout): entry [i, j] is at position i * n + j + 1.
Pos(n, i, j) == i * n + j + 1
RowOf(n, k) == (k - 1) \div n
ColOf(n, k) == (k - 1) % n

\* M[i, j]
At(M, i, j) == M.a[Pos(M.n, i, j)]

\* self.adjMat = None
NoneMat == [n |-> -1, a |-> <<>>]

\* shape(self.adjMat)[0]
shape0(M) == M.n

\* M.flatten(): the entries in row-major order
flatten(M) == M.a

\* numpy's sort order: ascending, nan after every number
NpLess(a, b) == IF IsNaN(a) THEN FALSE ELSE IF IsNaN(b) THEN TRUE ELSE a < b

\* weights.sort()
npsort(s) == SortSeq(s, NpLess)

\* while str(weights[-1]) == 'nan': weights = weights[:-1]
\* (an IndexError when nothing is left: see ApplyThreshold)
RECURSIVE stripNaN(_)
stripNaN(s) ==
    IF Len(s) = 0 THEN s
    ELSE IF IsNaN(s[Len(s)]) THEN stripNaN(SubSeq(s, 1, Len(s) - 1))
    ELSE s

\* Python's s[i] for a list: a negative i counts from the end, and -0 is 0
PyIndex(s, i) == IF i >= 0 THEN s[i + 1] ELSE s[Len(s) + i + 1]

\* Python 2's round(num / den) for num >= 0: halves go away from zero
round(num, den) == (2 * num + den) \div (2 * den)

\* ---------------------------------------------------------------- inputs
\* the finite values a matrix entry takes (tenths)
Weights == {0, 1}

\* the matrices a file can hold: NA everywhere but in at most MaxFinite cells
MatrixChoices ==
    { [n |-> NumNodes,
       a |-> [k \in 1 .. (NumNodes * NumNodes) |-> IF k \in DOMAIN f THEN f[k] ELSE NaN]] :
        f \in UNION { [S -> Weights] :
                        S \in { T \in SUBSET (1 .. (NumNodes * NumNodes)) :
                                  Cardinality(T) <= MaxFinite } } }

\* edgePC arguments tried (percent)
EdgePCChoices == {5, 25, 50, 100}
\* totalEdges arguments tried
TotalEdgesChoices == 1 .. MaxTotalEdges
\* tVal arguments tried: the default, the matrix values, and one above them
TValChoices == {DefaultTVal} \cup Weights \cup {2}
\* the calls tried, <<edgePC, totalEdges, tVal>>, 0 standing for an argument
\* left at None (as falsy as 0): one policy alone, or edgePC with totalEdges
ThresholdCalls ==
    { <<p, 0, DefaultTVal>> : p \in EdgePCChoices }
    \cup { <<0, k, DefaultTVal>> : k \in TotalEdgesChoices }
    \cup { <<0, 0, t>> : t \in TValChoices }
    \cup { <<p, 1, DefaultTVal>> : p \in {50} }

\* ------------------------------------------------------------- __init__
\* the attributes brainObj.__init__ sets
InitAttrs ==
    {"G", "_directed", "iter", "adjMat", "adjInds", "edgeInds", "threshold",
     "hubs", "lengthEdgesRemoved", "bigconnG", "nbskull", "skull",
     "skullHeader", "nbiso", "iso", "isoHeader"}

NoCall == [op |-> "__init__"]

\* ------------------------------------------------------------ the graph
\* A networkx Graph: its nodes, the node attribute modelled (the property
\* "group": Absent, a number or a text), and its edges.  An undirected edge
\* is the pair <<u, v>> with u < v; edges maps it to its 'weight' attribute,
\* NoW when the edge has none.
Absent == [kind |-> "absent", v |-> 0]
Num(x) == [kind |-> "num", v |-> x]
Str(x) == [kind |-> "str", v |-> x]

\* nx.Graph()
EmptyGraph == [nodes |-> {}, props |-> <<>>, edges |-> <<>>]

Edge(u, v) == IF u < v THEN <<u, v>> ELSE <<v, u>>

\* no sub-brain made yet
NoSub == [made |-> FALSE, alias |-> FALSE, G |-> EmptyGraph, adjMat |-> NoneMat]
NoRet == <<-1, 1>>
\* self.G.node[n] holds no 'linkedNodes' and no 'degenerating' yet: each
\* attribute is a function of the nodes that have it
NoNodeData == [linkedNodes |-> <<>>, degenerating |-> <<>>]
\* no highlight constructed yet
NoHighlight == [made |-> FALSE]
\* A file is the sequence of its lines, or NoFile when it does not exist;
\* neither <base>_Robustness.txt nor <base>_Robustness.txt.old exists yet
NoFile == <<[kind |-> "no file", thr |-> 0]>>
NoFiles == [log |-> NoFile, old |-> NoFile]
\* no degenerate or degenerateNew call made yet
NoDeg == [pc |-> "idle"]
\* no neuronsusceptibility call made yet
NoSusc == [pc |-> "idle"]

Init ==
    /\ adjMat = NoneMat
    /\ directed = FALSE
    /\ edgeInds = <<>>
    /\ threshold = 0
    /\ attrs = InitAttrs
    /\ G = EmptyGraph
    /\ sub = NoSub
    /\ ret = NoRet
    /\ hubs = <<>>
    /\ nodeData = NoNodeData
    /\ hl = NoHighlight
    /\ files = NoFiles
    /\ dg = NoDeg
    /\ susc = NoSusc
    /\ call = NoCall
    /\ raised = "none"

\* ------------------------------------------------------------ getAdjFile
\* An adjacency file is a sequence of lines.  A data line holds tokens: "NA",
\* "nan" or the text of a number; a text line holds words, among them
\* possibly 'begins line' followed by the digit begins (-1 when it does not).
TokNA == [kind |-> "NA", v |-> 0]
TokNan == [kind |-> "nan", v |-> 0]

DataLine(toks) == [kind |-> "data", begins |-> -1, toks |-> toks]
TextLine(d) == [kind |-> "text", begins |-> d, toks |-> <<>>]

\* the data lines that hold the matrix M: NA for a missing entry
RowsOf(M) ==
    [r \in 1 .. M.n |->
        DataLine([c \in 1 .. M.n |->
                     IF IsNaN(M.a[Pos(M.n, r - 1, c - 1)]) THEN TokNA
                     ELSE Num(M.a[Pos(M.n, r - 1, c - 1)])])]

\* the same lines with every "NA" written "nan"
WithNan(rows) ==
    [r \in 1 .. Len(rows) |->
        DataLine([c \in 1 .. Len(rows[r].toks) |->
                     IF rows[r].toks[c] = TokNA THEN TokNan ELSE rows[r].toks[c]])]

\* the text lines put before the data: none, or up to MaxHeaderLines lines of
\* which one says 'begins line d', d naming the first data line or the text
\* line before it
Headers ==
    {<<>>}
    \cup { [k \in 1 .. p |-> IF k = h THEN TextLine(d) ELSE TextLine(-1)] :
             p \in 1 .. MaxHeaderLines, h \in 1 .. MaxHeaderLines, d \in 1 .. (MaxHeaderLines + 1) }

\* the files read: a matrix as it is, or (for a matrix with one finite entry
\* at most) with "nan" for "NA" and under a header
FileChoices ==
    { RowsOf(M) : M \in MatrixChoices }
    \cup { hd \o WithNan(RowsOf(M)) :
             hd \in { x \in Headers :
                        \/ x = <<>>
                        \/ \E k \in 1 .. Len(x) : x[k].begins \in {Len(x), Len(x) + 1} },
             M \in { X \in MatrixChoices :
                       Cardinality({ k \in 1 .. Len(X.a) : ~IsNaN(X.a[k]) }) <= 1 } }

\* float(v)
float(tok) == IF tok.kind = "num" THEN tok.v ELSE NaN

\* v if v != "NA" else np.nan, then float
parseToken(tok) == IF tok = TokNA THEN NaN ELSE float(tok)

\* the index of the first line holding 'begins line', 0 when there is none
RECURSIVE firstBegins(_, _)
firstBegins(reader, k) ==
    IF k > Len(reader) THEN 0
    ELSE IF reader[k].begins # -1 THEN k
    ELSE firstBegins(reader, k + 1)

\* startLine without the - 1
startLineAsWritten(reader) ==
    IF firstBegins(reader, 1) = 0 THEN 0 ELSE reader[firstBegins(reader, 1)].begins

\* startLine: the digit after 'begins line', less one; 0 without such a line
startLine(reader) ==
    IF firstBegins(reader, 1) = 0 THEN 0 ELSE reader[firstBegins(reader, 1)].begins - 1

\* reader[startLine:]
linesStr(reader) ==
    IF startLine(reader) >= 0
    THEN SubSeq(reader, startLine(reader) + 1, Len(reader))
    ELSE SubSeq(reader, Len(reader), Len(reader))

\* the rows joined end to end
RECURSIVE joined(_)
joined(rows) == IF Len(rows) = 0 THEN <<>> ELSE Head(rows) \o joined(Tail(rows))

\* array(lines): the parsed rows
parsedMatrix(ls) ==
    [n |-> Len(ls),
     a |-> joined([r \in 1 .. Len(ls) |->
                     [c \in 1 .. Len(ls[r].toks) |-> parseToken(ls[r].toks[c])]])]

getAdjFile ==
    /\ adjMat = NoneMat          \* a brain loads its matrix once
    /\ \E reader \in FileChoices :
          /\ call' = [op |-> "getAdjFile", file |-> reader]
          /\ IF \E k \in 1 .. Len(linesStr(reader)) : linesStr(reader)[k].kind = "text"
             THEN \* float() of a word
                  /\ raised' = "ValueError"
                  /\ adjMat' = adjMat
             ELSE /\ adjMat' = parsedMatrix(linesStr(reader))
                  /\ raised' = "none"
    /\ UNCHANGED <<directed, edgeInds, threshold, attrs, graphVars>>

\* --------------------------------------------------------- applyThreshold
\* the number of edges to link (edgeNum), by the three cases
edgeNumOf(edgePC, totalEdges, n, dir) ==
    IF edgePC # 0
    THEN IF dir THEN round(edgePC * n * (n - 1), 200)
                ELSE round(edgePC * n * (n - 1), 100)
    ELSE IF totalEdges # 0
    THEN IF ~dir THEN totalEdges * 2 ELSE totalEdges
    ELSE -1

\* the finite entries in ascending order
sortedWeights(M) == stripNaN(npsort(flatten(M)))

\* the threshold value for edgeNum >= 0 (weights non-empty)
cutoff(weights, edgeNum) ==
    IF edgeNum > Len(weights) THEN PyIndex(weights, 0)
    ELSE PyIndex(weights, -edgeNum)

\* boolMat with a strict comparison, > in place of >=
boolMatStrict(M, t) == [k \in 1 .. (M.n * M.n) |-> ~IsNaN(M.a[k]) /\ M.a[k] > t]

\* boolMat = self.adjMat >= self.threshold
boolMat(M, t) == [k \in 1 .. (M.n * M.n) |-> Ge(M.a[k], t)]

\* fill_diagonal(boolMat, 0)
fill_diagonal(B, n) ==
    [k \in 1 .. Len(B) |-> IF RowOf(n, k) = ColOf(n, k) THEN FALSE ELSE B[k]]

\* where restricted to the cells above the diagonal
whereUpper(B, n) ==
    LET ks == SelectSeq([k \in 1 .. Len(B) |-> k],
                        LAMBDA k : B[k] /\ RowOf(n, k) < ColOf(n, k))
    IN  [x \in 1 .. Len(ks) |-> <<RowOf(n, ks[x]), ColOf(n, ks[x])>>]

\* es = where(boolMat), appended pair by pair: the true cells in row-major order
where(B, n) ==
    LET ks == SelectSeq([k \in 1 .. Len(B) |-> k], LAMBDA k : B[k])
    IN  [x \in 1 .. Len(ks) |-> <<RowOf(n, ks[x]), ColOf(n, ks[x])>>]

applyThreshold(edgePC, totalEdges, tVal) ==
    /\ adjMat # NoneMat
    /\ LET n == shape0(adjMat)
           edgeNum == edgeNumOf(edgePC, totalEdges, n, directed)
           weights == sortedWeights(adjMat)
           newAttrs == IF edgePC # 0 THEN attrs \cup {"edgePC"} ELSE attrs
       IN  /\ call' = [op |-> "applyThreshold", edgePC |-> edgePC,
                       totalEdges |-> totalEdges, tVal |-> tVal,
                       edgeNum |-> edgeNum]
           /\ attrs' = newAttrs
           /\ IF edgeNum >= 0 /\ Len(weights) = 0
              THEN \* weights[-1] on an empty array
                   /\ raised' = "IndexError"
                   /\ UNCHANGED <<threshold, edgeInds>>
              ELSE LET t == IF edgeNum >= 0 THEN cutoff(weights, edgeNum) ELSE tVal
                   IN  /\ threshold' = t
                       /\ edgeInds' = where(fill_diagonal(boolMat(adjMat, t), n), n)
                       /\ raised' = "none"
    /\ UNCHANGED <<adjMat, directed, graphVars>>

ApplyThreshold ==
    \E c \in ThresholdCalls : applyThreshold(c[1], c[2], c[3])

NextThreshold == getAdjFile \/ ApplyThreshold

SpecThreshold == Init /\ [][NextThreshold]_vars

\* ------------------------------------------------------ populating self.G
\* the weights given to edges (tenths)
EdgeWeights == {1, 2}

\* self.G.add_nodes_from(range(nodecount)): one node for every matrix row
add_nodes_from ==
    /\ G.nodes = {}
    /\ G' = [G EXCEPT !.nodes = Nodes, !.props = [n \in Nodes |-> Absent]]
    /\ call' = [op |-> "add_nodes_from"]
    /\ raised' = "none"
    /\ UNCHANGED <<adjMat, matrixVars, attrs, sub, ret, hubs, nodeData, hl, files, dg, susc>>

\* the graph g with the edge e of weight w added
withEdge(g, e, w) ==
    [g EXCEPT !.edges = [x \in DOMAIN g.edges \cup {e} |-> IF x = e THEN w ELSE g.edges[x]]]

\* self.G.add_edge(node1, node2, weight = w)
add_edge ==
    /\ Cardinality(DOMAIN G.edges) < MaxEdges
    /\ \E u \in G.nodes, v \in G.nodes, w \in EdgeWeights :
          /\ u < v
          /\ Edge(u, v) \notin DOMAIN G.edges
          /\ G' = withEdge(G, Edge(u, v), w)
    /\ sub.made = FALSE         \* the graph is built before a sub-brain is taken
    /\ nodeData = NoNodeData    \* and before degeneration spreads on it
    /\ call' = [op |-> "add_edge"]
    /\ raised' = "none"
    /\ UNCHANGED <<adjMat, matrixVars, attrs, sub, ret, hubs, nodeData, hl, files, dg, susc>>

\* ------------------------------------------------------ reconstructAdjMat
\* zeros([n, n])
zeros(n) == [n |-> n, a |-> [k \in 1 .. (n * n) |-> 0]]

\* adjMat[i, j] = w; numpy raises IndexError for an index >= n
setitem(M, i, j, w) == [M EXCEPT !.a[Pos(M.n, i, j)] = w]
inBounds(M, i, j) == i < M.n /\ j < M.n

\* writeEdge without its second write: only [i, j] is written
writeEdgeOneWay(g, M, e) ==
    IF g.edges[e] = NoW \/ ~inBounds(M, e[1], e[2]) THEN M
    ELSE setitem(M, e[1], e[2], g.edges[e])

\* the body of the loop for the edge e: both writes, or neither when the
\* weight is missing or an index is out of bounds (the except branch)
writeEdge(g, M, e) ==
    IF g.edges[e] = NoW \/ ~inBounds(M, e[1], e[2]) THEN M
    ELSE setitem(setitem(M, e[1], e[2], g.edges[e]), e[2], e[1], g.edges[e])

\* for e in self.G.edges(): ...
RECURSIVE writeEdges(_, _, _)
writeEdges(g, M, todo) ==
    IF todo = {} THEN M
    ELSE LET e == CHOOSE x \in todo : TRUE
         IN  writeEdges(g, writeEdge(g, M, e), todo \ {e})

\* the matrix reconstructAdjMat builds for the graph g
reconstructed(g) == writeEdges(g, zeros(Cardinality(g.nodes)), DOMAIN g.edges)

reconstructAdjMat ==
    /\ adjMat' = reconstructed(G)
    /\ call' = [op |-> "reconstructAdjMat"]
    /\ raised' = "none"
    /\ UNCHANGED <<matrixVars, attrs, graphVars>>

\* --------------------------------------------------------------- binarise
\* "removes weighting from edges" (the docstring) read literally: the weights
\* are deleted
binarisedNoWeight(g) == [g EXCEPT !.edges = [e \in DOMAIN g.edges |-> NoW]]

\* for edge in self.G.edges(): self.G.edge[edge[0]][edge[1]]['weight'] = 1
binarised(g) == [g EXCEPT !.edges = [e \in DOMAIN g.edges |-> 1]]

binarise ==
    /\ G' = binarised(G)
    /\ call' = [op |-> "binarise"]
    /\ raised' = "none"
    /\ UNCHANGED <<adjMat, matrixVars, attrs, sub, ret, hubs, nodeData, hl, files, dg, susc>>

\* ------------------------------------------------------- percentConnected
percentConnected ==
    /\ call' = [op |-> "percentConnected"]
    /\ IF "directed" \notin attrs
       THEN \* self.directed: __init__ sets _directed only
            /\ raised' = "AttributeError"
            /\ UNCHANGED <<ret, attrs>>
       ELSE LET n == Cardinality(G.nodes)
                \* len(self.G.nodes() * (n - 1)): the list repeated n - 1 times
                totalConnections == IF directed THEN n * (n - 1)
                                                ELSE (n * (n - 1)) \div 2
            IN  IF totalConnections = 0
                THEN raised' = "ZeroDivisionError" /\ UNCHANGED <<ret, attrs>>
                ELSE /\ ret' = <<Cardinality(DOMAIN G.edges), totalConnections>>
                     /\ attrs' = attrs \cup {"percentConnections"}
                     /\ raised' = "none"
    /\ UNCHANGED <<adjMat, matrixVars, G, sub, hubs, nodeData, hl, files, dg, susc>>

NextGraph ==
    \/ add_nodes_from
    \/ add_edge
    \/ reconstructAdjMat
    \/ binarise
    \/ percentConnected

SpecGraph == Init /\ [][NextGraph]_vars

\* ---------------------------------------------------- inputNodeProperties
\* the property values given to nodes: numbers, and a text (as read from a
\* properties file)
PropValues == {Num(1), Num(2), Num(3), Str(1)}

\* the value of node n's attribute propName in g (only "group" is modelled)
propOf(g, n, propName) == IF propName = "group" THEN g.props[n] ELSE Absent

Tagged(g) == { n \in g.nodes : g.props[n] # Absent }

\* inputNodeProperties("group", [n], [p]); for a node that is not in the graph
\* the assignment fails and is reported, nothing changes
inputNodeProperties ==
    /\ G.nodes # {}
    /\ sub.made = FALSE         \* the graph is built before a sub-brain is taken
    /\ \E n \in 0 .. NumNodes, p \in PropValues :
          IF n \in G.nodes
          THEN /\ n \in Tagged(G) \/ Cardinality(Tagged(G)) < MaxTagged
               /\ G' = [G EXCEPT !.props[n] = p]
          ELSE G' = G
    /\ call' = [op |-> "inputNodeProperties"]
    /\ raised' = "none"
    /\ UNCHANGED <<adjMat, matrixVars, attrs, sub, ret, hubs, nodeData, hl, files, dg, susc>>


\* ------------------------------------------------- nodePropertiesFromFile
\* A line of a properties file after the name line, as split(l) sees it: its
\* first word is the text of an integer (first = "int", the integer i) or is
\* not, or is missing; a second word, the value v, is there or is not.
PropLine(i, v) == [first |-> "int", i |-> i, hasVal |-> TRUE, v |-> v]
IndexOnlyLine(i) == [first |-> "int", i |-> i, hasVal |-> FALSE, v |-> Absent]
WordLine == [first |-> "word", i |-> 0, hasVal |-> TRUE, v |-> Str(1)]

\* the lines tried; the index NumNodes names no node
LineChoices ==
    { PropLine(i, v) : i \in 0 .. NumNodes, v \in {Str(1), Str(2)} }
    \cup { IndexOnlyLine(i) : i \in 0 .. NumNodes }
    \cup { WordLine }

\* the data lines of the files tried
PropFileChoices ==
    UNION { [1 .. k -> LineChoices] : k \in 0 .. MaxFileLines }

\* the loop over data[1:]: int(vals[0]) is appended to nodes, then vals[1]
\* to propVals; the bare except leaves the loop's lists as the failing
\* statement found them
RECURSIVE readNodes(_)
readNodes(ls) ==
    IF Len(ls) = 0 THEN <<>>
    ELSE IF Head(ls).first = "int" THEN <<Head(ls).i>> \o readNodes(Tail(ls))
    ELSE readNodes(Tail(ls))

RECURSIVE readPropVals(_)
readPropVals(ls) ==
    IF Len(ls) = 0 THEN <<>>
    ELSE IF Head(ls).first = "int" /\ Head(ls).hasVal
    THEN <<Head(ls).v>> \o readPropVals(Tail(ls))
    ELSE readPropVals(Tail(ls))

\* inputNodeProperties's loop from position ind on: the graph it leaves and
\* the exception it ends with.  propList[ind] is read outside the try.
RECURSIVE assignProps(_, _, _, _)
assignProps(g, nodeList, propList, ind) ==
    IF ind > Len(nodeList) THEN [G |-> g, raised |-> "none"]
    ELSE IF ind > Len(propList) THEN [G |-> g, raised |-> "IndexError"]
    ELSE IF nodeList[ind] \in g.nodes
    THEN assignProps([nodes |-> g.nodes,
                      props |-> [n \in g.nodes |->
                                   IF n = nodeList[ind] THEN propList[ind] ELSE g.props[n]],
                      edges |-> g.edges],
                     nodeList, propList, ind + 1)
    ELSE \* self.G.node[n] fails: 'property assignment failed'
         assignProps(g, nodeList, propList, ind + 1)

nodePropertiesFromFile ==
    /\ G.nodes # {}
    /\ \E data \in PropFileChoices :
          LET out == IF Len(data) = 0
                     THEN \* len(data) < 2: 'no data in properties file'
                          [G |-> G, raised |-> "none"]
                     ELSE assignProps(G, readNodes(data), readPropVals(data), 1)
          IN  /\ G' = out.G
              /\ raised' = out.raised
              /\ call' = [op |-> "nodePropertiesFromFile", data |-> data, oldG |-> G]
    /\ UNCHANGED <<adjMat, matrixVars, attrs, sub, ret, hubs, nodeData, hl, files, dg, susc>>

NextProps == add_nodes_from \/ nodePropertiesFromFile

SpecProps == Init /\ [][NextProps]_vars

\* ------------------------------------------------------------ makeSubBrain
\* Python 2's v >= x and v <= x for a number x: numbers compare by value, and
\* a text is greater than every number
PyGe(pv, x) == IF pv.kind = "str" THEN TRUE ELSE pv.v >= x
PyLe(pv, x) == IF pv.kind = "str" THEN FALSE ELSE pv.v <= x

\* the filters tried: the literal "any", a {min, max} range, a list of values
RangeFilter(lo, hi) == [kind |-> "range", min |-> lo, max |-> hi, vals |-> {}]
ListFilter(S) == [kind |-> "list", min |-> 0, max |-> 0, vals |-> S]
AnyFilter == [kind |-> "any", min |-> 0, max |-> 0, vals |-> {}]
FilterChoices == {RangeFilter(1, 2), RangeFilter(2, 3), ListFilter({Num(1)}), AnyFilter}

\* accepted with a range that leaves its upper end out
acceptedHalfOpen(g, propName, value) ==
    { n \in g.nodes :
        LET v == propOf(g, n, propName)
        IN  /\ v # Absent
            /\ IF value.kind = "range"
               THEN PyGe(v, value.min) /\ PyLe(v, value.max - 1)
               ELSE v \in value.vals }

\* acceptedNodes: a node without the property raises and is passed over
accepted(g, propName, value) ==
    { n \in g.nodes :
        LET v == propOf(g, n, propName)
        IN  /\ v # Absent
            /\ IF value.kind = "range"
               THEN PyGe(v, value.min) /\ PyLe(v, value.max)
               ELSE v \in value.vals }

\* the edges with both nodes accepted
keptEdges(g, acc) == { e \in DOMAIN g.edges : e[1] \in acc /\ e[2] \in acc }

\* subBrain.G: the parent's own graph for "any"; else the accepted nodes with
\* their attributes, and the kept edges added as bare pairs (no attributes)
subGraph(g, propName, value) ==
    IF value.kind = "any" THEN g
    ELSE LET acc == accepted(g, propName, value)
         IN  [nodes |-> acc,
              props |-> [n \in acc |-> g.props[n]],
              edges |-> [e \in keptEdges(g, acc) |-> NoW]]

makeSubBrain ==
    /\ G.nodes # {}
    /\ \E propName \in {"group", "label"}, value \in FilterChoices :
          /\ sub' = [made |-> TRUE,
                     alias |-> (value.kind = "any"),
                     G |-> subGraph(G, propName, value),
                     adjMat |-> reconstructed(subGraph(G, propName, value))]
          /\ call' = [op |-> "makeSubBrain", propName |-> propName, value |-> value]
    /\ raised' = "none"
    /\ UNCHANGED <<adjMat, matrixVars, attrs, G, ret, hubs, nodeData, hl, files, dg, susc>>

NextSub ==
    \/ add_nodes_from
    \/ add_edge
    \/ inputNodeProperties
    \/ makeSubBrain

SpecSub == Init /\ [][NextSub]_vars

\* ------------------------------------------------------- makeSubBrainEdges
\* n[2][propName] for the edge e of g: only the attribute 'weight' is modelled
edgeProp(g, e, propName) ==
    IF propName = "weight" /\ g.edges[e] # NoW THEN Num(g.edges[e]) ELSE Absent

\* the range branch: subBrain.G.add_edges_from([n]) for the edges with
\* v1 <= v <= v2, n = (u, v, attributes); an edge without the attribute raises
\* and is passed over
edgesInRange(g, propName, value) ==
    { e \in DOMAIN g.edges :
        LET v == edgeProp(g, e, propName)
        IN  v # Absent /\ PyGe(v, value.min) /\ PyLe(v, value.max) }

\* the value branch: for an edge whose attribute is among the values the code
\* calls subBrain.G.add_nodes_from([n]) with n = (u, v, attributes); networkx
\* cannot hash n, tries to unpack it as (node, attributes) and raises
\* ValueError, which the bare except passes over: nothing is added
edgesByValue(g, propName, value) == {}

\* subBrain.G: all the parent's nodes with their attributes, and the edges the
\* branch taken adds (with their attributes); "any" is a value like another
subGraphEdges(g, propName, value) ==
    LET kept == IF value.kind = "range" THEN edgesInRange(g, propName, value)
                ELSE edgesByValue(g, propName, value)
    IN  [nodes |-> g.nodes, props |-> g.props, edges |-> [e \in kept |-> g.edges[e]]]

makeSubBrainEdges ==
    /\ \E propName \in {"weight", "length"}, value \in FilterChoices :
          /\ sub' = [made |-> TRUE,
                     alias |-> FALSE,
                     G |-> subGraphEdges(G, propName, value),
                     adjMat |-> reconstructed(subGraphEdges(G, propName, value))]
          /\ call' = [op |-> "makeSubBrainEdges", propName |-> propName, value |-> value]
    /\ raised' = "none"
    /\ UNCHANGED <<adjMat, matrixVars, attrs, G, ret, hubs, nodeData, hl, files, dg, susc>>

NextSubEdges ==
    \/ add_nodes_from
    \/ add_edge
    \/ makeSubBrainEdges

SpecSubEdges == Init /\ [][NextSubEdges]_vars

\* ------------------------------------------------------- exact arithmetic
\* The hub scores are quotients of sums; the model keeps them exact.  A
\* natural number too wide for a machine integer is held as the sequence of
\* its digits in base BigBase, the least significant first.
BigBase == 100 * 100

RECURSIVE gcd(_, _)
gcd(a, b) == IF b = 0 THEN a ELSE gcd(b, a % b)

lcm(a, b) == (a \div gcd(a, b)) * b

\* f[1] + ... + f[k]
RECURSIVE SumTo(_, _)
SumTo(f, k) == IF k = 0 THEN 0 ELSE f[k] + SumTo(f, k - 1)

\* the sum of f over the set S
RECURSIVE SumSet(_, _)
SumSet(S, f) ==
    IF S = {} THEN 0
    ELSE LET x == CHOOSE y \in S : TRUE
         IN  f[x] + SumSet(S \ {x}, f)

\* the least common multiple of the numbers in S
RECURSIVE LcmSet(_)
LcmSet(S) ==
    IF S = {} THEN 1
    ELSE LET x == CHOOSE y \in S : TRUE
         IN  lcm(x, LcmSet(S \ {x}))

\* the digits of (the number whose digits are s) + c, each brought below BigBase
RECURSIVE Carry(_, _)
Carry(s, c) ==
    IF Len(s) = 0
    THEN IF c = 0 THEN <<>> ELSE <<c % BigBase>> \o Carry(<<>>, c \div BigBase)
    ELSE <<(s[1] + c) % BigBase>> \o Carry(Tail(s), (s[1] + c) \div BigBase)

ToBig(x) == Carry(<<x>>, 0)

Digit(a, k) == IF k <= Len(a) THEN a[k] ELSE 0
MaxLen(a, b) == IF Len(a) >= Len(b) THEN Len(a) ELSE Len(b)

BigAdd(a, b) == Carry([k \in 1 .. MaxLen(a, b) |-> Digit(a, k) + Digit(b, k)], 0)

\* a - b, for a >= b
BigSub(a, b) == Carry([k \in 1 .. MaxLen(a, b) |-> Digit(a, k) - Digit(b, k)], 0)

BigMul(a, b) ==
    IF Len(a) = 0 \/ Len(b) = 0 THEN <<>>
    ELSE Carry([k \in 1 .. (Len(a) + Len(b) - 1) |->
                   SumTo([i \in 1 .. k |-> Digit(a, i) * Digit(b, k + 1 - i)], k)], 0)

\* a < b, reading from digit k down
RECURSIVE BigLessFrom(_, _, _)
BigLessFrom(a, b, k) ==
    IF k = 0 THEN FALSE
    ELSE IF Digit(a, k) # Digit(b, k) THEN Digit(a, k) < Digit(b, k)
    ELSE BigLessFrom(a, b, k - 1)

BigLess(a, b) == BigLessFrom(a, b, MaxLen(a, b))

\* f[1] + ... + f[k] for wide numbers
RECURSIVE BigSumTo(_, _)
BigSumTo(f, k) == IF k = 0 THEN <<>> ELSE BigAdd(f[k], BigSumTo(f, k - 1))

\* ----------------------------------------------- the centrality measures
\* self.G.nodes(), and the .values() of a dictionary keyed by node: the nodes
\* in ascending order
RECURSIVE ascending(_)
ascending(S) ==
    IF S = {} THEN <<>>
    ELSE LET m == CHOOSE x \in S : \A y \in S : x <= y
         IN  <<m>> \o ascending(S \ {m})

neighbors(g, v) == { u \in g.nodes : u # v /\ Edge(u, v) \in DOMAIN g.edges }

\* nx.degree(self.G)[v]
degree(g, v) == Cardinality(neighbors(g, v))

\* breadth-first search: seen maps the nodes reached so far to their distance,
\* frontier holds those at distance k
RECURSIVE bfs(_, _, _, _)
bfs(g, seen, frontier, k) ==
    LET next == (UNION { neighbors(g, u) : u \in frontier }) \ DOMAIN seen
    IN  IF next = {} THEN seen
        ELSE bfs(g, [v \in DOMAIN seen \cup next |-> IF v \in next THEN k + 1 ELSE seen[v]],
                 next, k + 1)

\* the nodes reachable from s, each with its distance from s
single_source_shortest_path_length(g, s) == bfs(g, [v \in {s} |-> 0], {s}, 0)

\* the number of shortest paths from the source of dist to v
RECURSIVE sigma(_, _, _)
sigma(g, dist, v) ==
    IF dist[v] = 0 THEN 1
    ELSE LET P == { u \in neighbors(g, v) : u \in DOMAIN dist /\ dist[u] = dist[v] - 1 }
         IN  SumSet(P, [u \in P |-> sigma(g, dist, u)])

\* An array of fractions with one denominator: entry k is num[k] / den.
\* nan is the entry 0 / 0.
\*
\* betweenness_centrality(G).values(): for the node v, the sum over the
\* ordered pairs (s, t) of other nodes of the share of the shortest s-t paths
\* that pass through v, divided by (n - 1)(n - 2)
betweenness_centrality(g) ==
    LET ns == ascending(g.nodes)
        n == Len(ns)
        dist == [s \in g.nodes |-> single_source_shortest_path_length(g, s)]
        sig == [s \in g.nodes |-> [t \in DOMAIN dist[s] |-> sigma(g, dist[s], t)]]
        L == LcmSet(UNION { { sig[s][t] : t \in DOMAIN dist[s] } : s \in g.nodes })
        through(v) ==
            { p \in (g.nodes \ {v}) \X (g.nodes \ {v}) :
                /\ p[1] # p[2]
                /\ p[2] \in DOMAIN dist[p[1]]
                /\ v \in DOMAIN dist[p[1]]
                /\ dist[p[1]][v] + dist[v][p[2]] = dist[p[1]][p[2]] }
        share(v) ==
            LET T == through(v)
            IN  SumSet(T, [p \in T |->
                    (L * sig[p[1]][v] * sig[v][p[2]]) \div sig[p[1]][p[2]]])
    IN  [num |-> [k \in 1 .. n |-> share(ns[k])],
         den |-> IF n > 2 THEN L * (n - 1) * (n - 2) ELSE L]

\* closeness_centrality(G).values(): for a node reaching r others at total
\* distance T, (r / T) * (r / (n - 1)); 0 for a node that reaches none
closeness_centrality(g) ==
    LET ns == ascending(g.nodes)
        n == Len(ns)
        dist == [s \in g.nodes |-> single_source_shortest_path_length(g, s)]
        r == [s \in g.nodes |-> Cardinality(DOMAIN dist[s]) - 1]
        totsp == [s \in g.nodes |-> SumSet(DOMAIN dist[s], dist[s])]
        M == LcmSet({ totsp[s] * (n - 1) : s \in { x \in g.nodes : totsp[x] > 0 } })
    IN  [num |-> [k \in 1 .. n |->
                    IF totsp[ns[k]] > 0
                    THEN r[ns[k]] * r[ns[k]] * (M \div (totsp[ns[k]] * (n - 1)))
                    ELSE 0],
         den |-> M]

\* nx.degree(self.G).values(): an array of integers
degrees(g) ==
    LET ns == ascending(g.nodes)
    IN  [num |-> [k \in 1 .. Len(ns) |-> degree(g, ns[k])], den |-> 1]


\* ---------------------------------------------------- checkrobustnessNew
\* len(components.connected.connected_component_subgraphs(g)): one node set
\* per component
connected_component_subgraphs(g) ==
    { DOMAIN single_source_shortest_path_length(g, s) : s \in g.nodes }

\* self.G.remove_edges_from(self.G.edges())
remove_edges_from(g) == [g EXCEPT !.edges = <<>>]

\* adjMatThresholding(..., rethreshold = False): the ways the call can end,
\* each the graph it leaves and the exception it raises.  Without a matrix
\* it prints and returns.  With one, "self.adjMat == None" is False under an
\* older numpy and an array whose truth raises ValueError under a newer one;
\* past that test the edges are removed and the else branch reads node1,
\* a name nothing binds.
adjMatThresholding(g, M) ==
    IF M = NoneMat
    THEN { [G |-> g, raised |-> "none"] }
    ELSE { [G |-> g, raised |-> "ValueError"],
           [G |-> remove_edges_from(g), raised |-> "NameError"] }

\* t0low arguments tried (tenths): the default, -1.0
T0LowChoices == {DefaultT0Low}

checkrobustnessNew ==
    /\ \E decs \in {1}, t0low \in T0LowChoices, edgePCBool \in BOOLEAN :
          \* the call and the place it was left at
          LET leftAt(place) ==
                 [op |-> "checkrobustnessNew", decs |-> decs, t0low |-> t0low,
                  edgePCBool |-> edgePCBool, oldThr |-> threshold, oldG |-> G,
                  left |-> place]
          IN  IF edgePCBool /\ "edgePC" \notin attrs
              THEN \* ths reads self.edgePC
                   /\ raised' = "AttributeError"
                   /\ G' = G
                   /\ call' = leftAt("ths")
              ELSE \E out \in adjMatThresholding(G, adjMat) :
                     IF out.raised # "none"
                     THEN \* the first of the three thresholdings raises
                          /\ raised' = out.raised
                          /\ G' = out.G
                          /\ call' = leftAt("first thresholding")
                     ELSE \* no matrix: the three thresholdings return at once
                          \* and the three counts are of the one graph
                          LET sgLen == [n \in 1 .. 3 |->
                                          Cardinality(connected_component_subgraphs(out.G))]
                          IN  /\ sgLen[3] = sgLen[1]     \* 'wrong boundaries': return
                              /\ raised' = "none"
                              /\ G' = out.G
                              /\ call' = leftAt("wrong boundaries")
    /\ ret' = NoRet
    /\ UNCHANGED <<adjMat, matrixVars, attrs, sub, hubs, nodeData, hl, files, dg, susc>>

NextRobust ==
    \/ getAdjFile
    \/ ApplyThreshold
    \/ add_nodes_from
    \/ add_edge
    \/ checkrobustnessNew

SpecRobust == Init /\ [][NextRobust]_vars



\* -------------------------------------------------------------- robustness
\* the lines of the log: the header "RobustnessConnectivity\tRobustnessThresh"
\* and a data row, of which the threshold written is kept
HeaderLine == [kind |-> "header", thr |-> 0]
RowLine(t) == [kind |-> "row", thr |-> t]

\* os.path.exists
exists(f) == f # NoFile

\* open(name, mode) followed by writelines(ls): "w" starts the file anew,
\* "a" continues it, and either creates a file that is not there
written(f, mode, ls) == IF exists(f) /\ mode = "a" THEN f \o ls ELSE ls

\* move(log, log + '.old') when append is False and the log exists
moved(fs, append) ==
    IF ~append /\ exists(fs.log) THEN [log |-> NoFile, old |-> fs.log] ELSE fs

\* robustness(outfilebase, conVal, decPoints, append).  The first
\* checkrobustness begins with adjMatThresholding: with a matrix loaded it
\* raises, after the log has been moved; without one every thresholding
\* returns at once and the connectivity loop runs conVal down to zero.
robustness ==
    /\ Len(files.log) <= MaxLogRows
    /\ \E append \in BOOLEAN :
          LET writeMode == IF append THEN "a" ELSE "w"
              fs == moved(files, append)
          IN  /\ call' = [op |-> "robustness", append |-> append, files |-> files]
              /\ \E out \in adjMatThresholding(G, adjMat) :
                    IF out.raised # "none"
                    THEN /\ raised' = out.raised
                         /\ G' = out.G
                         /\ files' = fs
                    ELSE /\ raised' = "none"
                         /\ G' = out.G
                         /\ files' =
                              [fs EXCEPT !.log =
                                 IF ~exists(fs.log)
                                 THEN written(fs.log, writeMode,
                                              <<HeaderLine, RowLine(threshold)>>)
                                 ELSE written(fs.log, "a", <<RowLine(threshold)>>)]
    /\ UNCHANGED <<adjMat, matrixVars, attrs, sub, ret, hubs, nodeData, hl, dg, susc>>

NextRobustness ==
    \/ getAdjFile
    \/ robustness

SpecRobustness == Init /\ [][NextRobustness]_vars

\* ------------------------------------------------------ contiguousspread
\* self.G.edges(): the edges, lowest pair first
RECURSIVE edgeList(_)
edgeList(E) ==
    IF E = {} THEN <<>>
    ELSE LET m == CHOOSE x \in E : \A y \in E : x[1] < y[1] \/ (x[1] = y[1] /\ x[2] <= y[2])
         IN  <<m>> \o edgeList(E \ {m})

\* the list at node u with v put at its end, a new list when u has none
linkedTo(linked, u, v) ==
    [n \in DOMAIN linked \cup {u} |->
        IF n = u THEN (IF u \in DOMAIN linked THEN Append(linked[u], v) ELSE <<v>>)
        ELSE linked[n]]

\* findLinkedNodes: each edge adds its ends to each other's list
RECURSIVE findLinkedNodes(_, _)
findLinkedNodes(es, linked) ==
    IF Len(es) = 0 THEN linked
    ELSE findLinkedNodes(Tail(es),
                         linkedTo(linkedTo(linked, Head(es)[1], Head(es)[2]),
                                  Head(es)[2], Head(es)[1]))

Range(s) == { s[k] : k \in 1 .. Len(s) }

\* the list l without the entries equal to x
RECURSIVE without(_, _)
without(l, x) ==
    IF Len(l) = 0 THEN <<>>
    ELSE IF Head(l) = x THEN without(Tail(l), x)
    ELSE <<Head(l)>> \o without(Tail(l), x)

\* the list l as it is
unfiltered(nd, toxicNodes, l) == l

\* newl: the entries of l that are not in toxicNodes and not degenerating
RECURSIVE newl(_, _, _)
newl(nd, toxicNodes, l) ==
    IF Len(l) = 0 THEN <<>>
    ELSE IF Head(l) \in Range(toxicNodes) THEN newl(nd, toxicNodes, Tail(l))
    ELSE IF nd.degenerating[Head(l)] THEN newl(nd, toxicNodes, Tail(l))
    ELSE <<Head(l)>> \o newl(nd, toxicNodes, Tail(l))

\* riskNodes before the loop: newl of every start node's list, joined
RECURSIVE firstRisk(_, _, _)
firstRisk(nd, toxicNodes, ts) ==
    IF Len(ts) = 0 THEN <<>>
    ELSE newl(nd, toxicNodes, nd.linkedNodes[Head(ts)]) \o firstRisk(nd, toxicNodes, Tail(ts))

\* every node in ts marked degenerating
RECURSIVE marked(_, _)
marked(deg, ts) ==
    IF Len(ts) = 0 THEN deg
    ELSE marked([n \in DOMAIN deg |-> n = Head(ts) \/ deg[n]], Tail(ts))

\* the ways the loop's remaining `left` steps can go, one for every value
\* random.randint(0, len(riskNodes) - 1) can take.  emptied tells that
\* riskNodes was empty with steps still to do.
RECURSIVE spreadFrom(_, _, _, _, _)
spreadFrom(nd, toxicNodes, riskNodes, toxicNodeRecord, left) ==
    IF left = 0
    THEN { [nd |-> nd, toxicNodes |-> toxicNodes, toxicNodeRecord |-> toxicNodeRecord,
            raised |-> "none", emptied |-> FALSE] }
    ELSE IF Len(riskNodes) = 0
    THEN \* random.randint(0, -1)
         { [nd |-> nd, toxicNodes |-> toxicNodes, toxicNodeRecord |-> toxicNodeRecord,
            raised |-> "ValueError", emptied |-> TRUE] }
    ELSE UNION {
           LET deadNode == riskNodes[ind]
               toxic2 == Append(toxicNodes, deadNode)
               nd2 == [linkedNodes |-> nd.linkedNodes,
                       degenerating |-> marked(nd.degenerating, <<deadNode>>)]
               risk2 == without(riskNodes, deadNode)
                          \o newl(nd2, toxic2, nd.linkedNodes[deadNode])
               record2 == Append(toxicNodeRecord, toxic2)
           IN  IF Len(risk2) = 0
               THEN \* break
                    { [nd |-> nd2, toxicNodes |-> toxic2, toxicNodeRecord |-> record2,
                       raised |-> "none", emptied |-> left > 1] }
               ELSE spreadFrom(nd2, toxic2, risk2, record2, left - 1)
           : ind \in 1 .. Len(riskNodes) }

\* startNodes arguments tried: none, or one or two nodes
StartChoices ==
    {<<>>} \cup { <<a>> : a \in Nodes } \cup { <<p[1], p[2]>> : p \in { q \in Nodes \X Nodes : q[1] # q[2] } }

contiguousspread ==
    /\ \A n \in DOMAIN nodeData.linkedNodes : Len(nodeData.linkedNodes[n]) <= MaxLinked
    /\ Cardinality({ n \in DOMAIN nodeData.degenerating : nodeData.degenerating[n] }) <= MaxToxic
    /\ \E edgeloss \in 1 .. MaxSteps, startNodes \in StartChoices :
          LET \* G.node[0]['linkedNodes'] fails: findLinkedNodes()
              linked == IF 0 \in DOMAIN nodeData.linkedNodes THEN nodeData.linkedNodes
                        ELSE findLinkedNodes(edgeList(DOMAIN G.edges), nodeData.linkedNodes)
              \* G.node[0]['degenerating'] fails: False at every node
              deg == IF 0 \in DOMAIN nodeData.degenerating THEN nodeData.degenerating
                     ELSE [n \in 0 .. (Cardinality(G.nodes) - 1) |-> FALSE]
              nd0 == [linkedNodes |-> linked, degenerating |-> deg]
              fails(r, nd) ==
                  /\ raised' = r
                  /\ nodeData' = nd
                  /\ adjMat' = adjMat
                  /\ call' = [op |-> "contiguousspread", edgeloss |-> edgeloss,
                              startNodes |-> startNodes, emptied |-> FALSE,
                              toxicNodes |-> <<>>, toxicNodeRecord |-> <<>>]
          IN  IF startNodes = <<>>
              THEN \* random.randint with one argument
                   fails("TypeError", nd0)
              ELSE IF G.nodes = {}
              THEN \* self.G.node[t]
                   fails("KeyError", nd0)
              ELSE LET nd1 == [linkedNodes |-> linked, degenerating |-> marked(deg, startNodes)]
                   IN  IF \E k \in 1 .. Len(startNodes) : startNodes[k] \notin DOMAIN linked
                       THEN \* self.G.node[t]['linkedNodes'] of a node without edges
                            fails("KeyError", nd1)
                       ELSE \E out \in spreadFrom(nd1, startNodes,
                                                  firstRisk(nd1, startNodes, startNodes),
                                                  <<startNodes>>, edgeloss) :
                              /\ raised' = out.raised
                              /\ nodeData' = out.nd
                              /\ adjMat' = IF out.raised = "none" THEN reconstructed(G) ELSE adjMat
                              /\ call' = [op |-> "contiguousspread", edgeloss |-> edgeloss,
                                          startNodes |-> startNodes, emptied |-> out.emptied,
                                          toxicNodes |-> out.toxicNodes,
                                          toxicNodeRecord |-> out.toxicNodeRecord]
    /\ UNCHANGED <<matrixVars, attrs, G, sub, ret, hubs, hl, files, dg, susc>>

NextSpread == add_nodes_from \/ add_edge \/ contiguousspread

SpecSpread == Init /\ [][NextSpread]_vars


\* -------------------------------------------------------------- highlight
\* An argument that may be None: None, or a list
PyNone == [none |-> TRUE, items |-> <<>>]
PyList(items) == [none |-> FALSE, items |-> items]

\* Python's truth of such an argument: None and the empty list are false
truthy(x) == ~x.none /\ Len(x.items) > 0

\* a pair as the caller wrote it: the list [i, j] or the tuple (i, j)
ListPair(i, j) == [kind |-> "list", i |-> i, j |-> j]
TuplePair(i, j) == [kind |-> "tuple", i |-> i, j |-> j]

\* the pairs a highlight is given
PairChoices == {ListPair(0, 1), ListPair(1, 2), TuplePair(0, 1)}

\* edges arguments tried: None, or up to MaxPairs different pairs
EdgesChoices ==
    {PyNone, PyList(<<>>)}
    \cup { PyList(<<a>>) : a \in PairChoices }
    \cup { PyList(<<p[1], p[2]>>) : p \in { q \in PairChoices \X PairChoices : q[1] # q[2] } }

\* points arguments tried
PointsChoices == {PyNone, PyList(<<0>>)}

\* highlight.__init__(points, edges)
highlight ==
    /\ ~hl.made                 \* one highlight is followed
    /\ \E points \in PointsChoices, edges \in EdgesChoices :
          /\ call' = [op |-> "highlight", points |-> points, edges |-> edges]
          /\ IF truthy(points) /\ truthy(edges)
             THEN /\ hl' = [made |-> TRUE, points |-> points, edges |-> edges,
                            edgeIndices |-> <<>>, mode |-> "pe"]
                  /\ raised' = "none"
             ELSE IF truthy(points)
             THEN /\ hl' = [made |-> TRUE, points |-> points, edges |-> edges,
                            edgeIndices |-> <<>>, mode |-> "p"]
                  /\ raised' = "none"
             ELSE \* elif self.mode: the attribute is read before anything set it,
                  \* and the constructor's exception leaves no object
                  /\ hl' = hl
                  /\ raised' = "AttributeError"
    /\ UNCHANGED <<adjMat, matrixVars, attrs, G, sub, ret, hubs, nodeData, files, dg, susc>>

\* x == e for an entry x of brain.edgeInds, the list [x[1], x[2]]: a list
\* equals a list of the same items and never a tuple
pyEq(x, e) == e.kind = "list" /\ x[1] = e.i /\ x[2] = e.j

\* x == e by the numbers alone
sameNumbers(x, e) == x[1] = e.i /\ x[2] = e.j

\* brain.edgeInds.index(e): the first position holding e, -1 for ValueError
index(inds, e) ==
    IF \E k \in 1 .. Len(inds) : pyEq(inds[k], e)
    THEN (CHOOSE k \in 1 .. Len(inds) :
            pyEq(inds[k], e) /\ \A m \in 1 .. (k - 1) : ~pyEq(inds[m], e)) - 1
    ELSE -1

\* the loop of getEdgeInds over the pairs es
RECURSIVE foundIndices(_, _)
foundIndices(inds, es) ==
    IF Len(es) = 0 THEN <<>>
    ELSE IF index(inds, Head(es)) = -1 THEN foundIndices(inds, Tail(es))
    ELSE <<index(inds, Head(es))>> \o foundIndices(inds, Tail(es))

\* highlight.getEdgeInds(brain)
getEdgeInds ==
    /\ hl.made
    /\ call' = [op |-> "getEdgeInds", edgeInds |-> edgeInds]
    /\ IF hl.edges.none
       THEN \* for e in None
            /\ hl' = [hl EXCEPT !.edgeIndices = <<>>]
            /\ raised' = "TypeError"
       ELSE /\ hl' = [hl EXCEPT !.edgeIndices = foundIndices(edgeInds, hl.edges.items)]
            /\ raised' = "none"
    /\ UNCHANGED <<adjMat, matrixVars, attrs, G, sub, ret, hubs, nodeData, files, dg, susc>>

NextHighlight ==
    \/ getAdjFile
    \/ ApplyThreshold
    \/ highlight
    \/ getEdgeInds

SpecHighlight == Init /\ [][NextHighlight]_vars


\* ----------------------------------------------- plot_weight_distribution
\* nx.to_numpy_matrix(g, nonedge = np.nan): the weight of the edge between
\* the i-th and the j-th node in both directions (1.0 for an edge without a
\* weight), NaN where there is no edge
to_numpy_matrix(g) ==
    LET n == Cardinality(g.nodes)
        node == ascending(g.nodes)
    IN  [n |-> n,
         a |-> [k \in 1 .. (n * n) |->
                  LET i == node[RowOf(n, k) + 1]
                      j == node[ColOf(n, k) + 1]
                  IN  IF i # j /\ Edge(i, j) \in DOMAIN g.edges
                      THEN (IF g.edges[Edge(i, j)] = NoW THEN DefaultWeight
                            ELSE g.edges[Edge(i, j)])
                      ELSE NaN]]

\* np.triu_indices(n, k = 1): the positions i < j, row by row
triu_indices(n) ==
    LET ks == SelectSeq([k \in 1 .. (n * n) |-> k] \o <<>>,
                        LAMBDA k : RowOf(n, k) < ColOf(n, k))
    IN  [x \in 1 .. Len(ks) |-> <<RowOf(n, ks[x]), ColOf(n, ks[x])>>]

\* arr[indices]
take(arr, indices) == [x \in 1 .. Len(indices) |-> At(arr, indices[x][1], indices[x][2])]

\* weights[~np.isnan(weights)]
notNaN(weights) == SelectSeq(weights \o <<>>, LAMBDA w : ~IsNaN(w))

\* what the function is handed: the graph itself, a brainObj of
\* mayBrainTools (it has _directed and no directed), or a Brain of the
\* maybrain package, whose directed attribute is False or True
BrainChoices ==
    { [type |-> "Graph", directed |-> "absent"],
      [type |-> "brainObj", directed |-> "absent"],
      [type |-> "Brain", directed |-> "False"],
      [type |-> "Brain", directed |-> "True"] }

plot_weight_distribution ==
    /\ G.nodes # {}
    /\ \E brain \in BrainChoices, output_file \in {"None", "file"} :
          LET arr == to_numpy_matrix(G)
              weights == take(arr, triu_indices(shape0(arr)))
              done(r, sample, returned) ==
                  /\ raised' = r
                  /\ call' = [op |-> "plot_weight_distribution", brain |-> brain,
                              output_file |-> output_file, sample |-> sample,
                              returned |-> returned]
          IN  IF brain.type # "Graph" /\ brain.directed = "absent"
              THEN \* brain.directed
                   done("AttributeError", <<>>, "nothing")
              ELSE IF brain.type # "Graph" /\ brain.directed = "True"
              THEN \* weights.extend: an array has no extend
                   done("AttributeError", <<>>, "nothing")
              ELSE done("none", notNaN(weights),
                        IF output_file = "None" THEN "fig, ax" ELSE "None")
    /\ UNCHANGED <<adjMat, matrixVars, attrs, G, sub, ret, hubs, nodeData, hl, files, dg, susc>>

NextHist == add_nodes_from \/ add_edge \/ plot_weight_distribution

SpecHist == Init /\ [][NextHist]_vars


\* ----------------------------------------------------------- updateAdjMat
\* updateAdjMat(edge): the weight is looked up (KeyError without the edge or
\* its weight), then "adjMat[edge[0], edge[1]] = w" names adjMat, which is
\* neither a local nor a global of the module (NameError); the bare except
\* takes either, prints "no weight found ... skipped", and self.adjMat is
\* never written
updateAdjMat ==
    /\ \E edge \in { p \in Nodes \X Nodes : p[1] # p[2] } :
          call' = [op |-> "updateAdjMat", edge |-> edge, adjMat |-> adjMat,
                   printed |-> "no weight found, skipped"]
    /\ adjMat' = adjMat
    /\ raised' = "none"
    /\ UNCHANGED <<matrixVars, attrs, graphVars>>

NextUpdate ==
    \/ add_nodes_from
    \/ add_edge
    \/ reconstructAdjMat
    \/ updateAdjMat

SpecUpdate == Init /\ [][NextUpdate]_vars

\* ------------------------------------------------------------- degenerate
\* One call of degenerate or degenerateNew is followed iteration by
\* iteration: dg holds the locals of the call (pc is "loop" while the while
\* loop runs and "done" after the call has ended), and call holds what the
\* last iteration did.  Weights, thresholds and budgets are in tenths.
MaxBudget == 2
DegWeights == {-1, 1, 2}
DegThresholds == {DefaultTVal, DefaultT0Low, 0, 2}
WeightLosses == {1, 2}
\* weightLossLimit = None
NoLimit == 0

Abs(x) == IF x < 0 THEN -x ELSE x
Max(a, b) == IF a > b THEN a ELSE b

\* a weight lowered by weightloss whatever its sign
lowered(w, weightloss) == w - weightloss

\* the edge weight after one step of degenerate (lines 965-976)
degraded(w, weightloss) ==
    IF Abs(w) < weightloss THEN 0
    ELSE IF w > 0 THEN w - weightloss
    ELSE w + weightloss

\* loss in degenerate (lines 965-975)
loss(w, weightloss) == IF Abs(w) < weightloss THEN w ELSE weightloss

\* loss in degenerateNew (lines 1069-1075)
lossNew(w, weightloss) ==
    IF weightloss = 0 THEN w
    ELSE IF w > 0 THEN weightloss
    ELSE -weightloss

\* new_w = max(w - loss, 0.)
new_w(w, weightloss) == Max(w - lossNew(w, weightloss), 0)

\* nx.edges(self.G, nodeList): the edges with an end in nodeList
edges(g, nodeList) ==
    edgeList({ e \in DOMAIN g.edges : e[1] \in Range(nodeList) \/ e[2] \in Range(nodeList) })

\* for node in dyingEdge: if not node in nodeList: nodeList.append(node)
appended(nodeList, e) ==
    LET l1 == IF e[1] \in Range(nodeList) THEN nodeList ELSE Append(nodeList, e[1])
    IN  IF e[2] \in Range(l1) THEN l1 ELSE Append(l1, e[2])

\* the graph g as it is
kept(g, e) == g

\* self.G.remove_edge(u, v)
remove_edge(g, e) ==
    [g EXCEPT !.edges = [x \in (DOMAIN g.edges) \ {e} |-> g.edges[x]]]

\* the graph with the weight of the edge e set to w
setWeight(g, e, w) ==
    [g EXCEPT !.edges = [x \in DOMAIN g.edges |-> IF x = e THEN w ELSE g.edges[x]]]

\* riskEdges.pop(riskEdges.index(dyingEdge)): the first entry equal to e goes
RECURSIVE pop(_, _)
pop(l, e) ==
    IF Len(l) = 0 THEN <<>>
    ELSE IF Head(l) = e THEN Tail(l)
    ELSE <<Head(l)>> \o pop(Tail(l), e)

\* findSpatiallyNearest on a graph whose nodes carry no 'xyz': no distance
\* is ever computed, so the first node outside nodeList that has an edge
\* makes (node, distance) read the unbound local; with no such node the
\* method returns None
findSpatiallyNearest(g, nodeList) ==
    IF \E v \in g.nodes \ Range(nodeList) : degree(g, v) > 0
    THEN "UnboundLocalError"
    ELSE "None"

\* the budget: weightLossLimit if it is given, else edgesRemovedLimit
limitOf(edgesRemovedLimit, weightLossLimit) ==
    IF weightLossLimit # NoLimit THEN weightLossLimit ELSE edgesRemovedLimit

\* the toxicNodes / riskNodes and riskEdges a caller passes: None, or one
\* node, and None, or one edge of the graph
NodeListChoices == {<<>>, <<0>>}
RiskEdgesChoices(g) == {<<>>} \cup { <<e>> : e \in DOMAIN g.edges }

\* the entry of degenerate, up to the while loop (lines 921-943)
degenerate ==
    /\ dg.pc = "idle"
    /\ \E weightloss \in WeightLosses, edgesRemovedLimit \in {1, MaxBudget},
          weightLossLimit \in {NoLimit, MaxBudget}, toxicNodes \in NodeListChoices,
          riskEdges \in RiskEdgesChoices(G), spread \in BOOLEAN :
          LET reDefineEdges == riskEdges = <<>>
              nodeList == IF reDefineEdges /\ toxicNodes = <<>>
                          THEN [k \in 1 .. Cardinality(G.nodes) |-> k - 1]
                          ELSE toxicNodes
          IN  /\ dg' = [pc |-> "loop", fn |-> "degenerate", iter |-> 0,
                        weightloss |-> weightloss,
                        edgesRemovedLimit |-> edgesRemovedLimit,
                        weightLossLimit |-> weightLossLimit,
                        limit |-> limitOf(edgesRemovedLimit, weightLossLimit),
                        nodeList |-> nodeList,
                        riskEdges |-> IF reDefineEdges THEN edges(G, nodeList)
                                      ELSE riskEdges,
                        reDefineEdges |-> reDefineEdges,
                        spread |-> spread,
                        deadEdgesRec |-> <<>>]
              /\ call' = [op |-> "degenerate", given |-> riskEdges # <<>>]
    /\ raised' = "none"
    /\ UNCHANGED <<adjMat, matrixVars, attrs, G, sub, ret, hubs, nodeData, hl, files, susc>>

\* the call ends: by break or by the loop test with reconstructAdjMat and
\* the return, or by the exception exc
ended(exc) ==
    /\ dg' = [dg EXCEPT !.pc = "done"]
    /\ raised' = exc
    /\ IF exc = "none"
       THEN adjMat' = reconstructed(G)
       ELSE UNCHANGED adjMat
    /\ UNCHANGED G

\* if not riskEdges: ... (lines 947-958 and 1049-1060)
noRiskEdges ==
    /\ call' = [op |-> "no risk edges", fn |-> dg.fn]
    /\ IF findSpatiallyNearest(G, dg.nodeList) = "None"
       THEN ended("none")
       ELSE ended("UnboundLocalError")

\* one iteration of degenerate on the edge random.choice picked (960-1000)
degenerateEdge(dyingEdge) ==
    IF dyingEdge \notin DOMAIN G.edges
    THEN \* self.G[u][v] of an edge that is gone
         /\ call' = [op |-> "step", fn |-> "degenerate", edge |-> dyingEdge,
                     present |-> FALSE]
         /\ ended("KeyError")
    ELSE LET w == G.edges[dyingEdge]
             weight == degraded(w, dg.weightloss)
             lost == loss(w, dg.weightloss)
             nodeList == IF dg.spread THEN appended(dg.nodeList, dyingEdge)
                         ELSE dg.nodeList
             removed == weight < threshold /\ threshold # DefaultT0Low
             g == IF removed THEN remove_edge(G, dyingEdge)
                  ELSE setWeight(G, dyingEdge, weight)
             limit1 == IF removed /\ dg.weightLossLimit = NoLimit
                       THEN dg.limit - 1 ELSE dg.limit
             limit == IF dg.weightLossLimit # NoLimit THEN limit1 - lost ELSE limit1
         IN  /\ G' = g
             /\ dg' = [dg EXCEPT !.iter = 1 - dg.iter,
                                 !.limit = limit,
                                 !.nodeList = nodeList,
                                 !.riskEdges = IF dg.reDefineEdges
                                               THEN edges(g, nodeList)
                                               ELSE dg.riskEdges]
             /\ call' = [op |-> "step", fn |-> "degenerate", edge |-> dyingEdge,
                         present |-> TRUE, w |-> w, weight |-> weight,
                         removed |-> removed, before |-> dg.limit, after |-> limit]
             /\ raised' = "none"
             /\ UNCHANGED adjMat

\* while limit>0: one iteration of degenerate
degenerateLoop ==
    /\ dg.pc = "loop"
    /\ dg.fn = "degenerate"
    /\ dg.limit > 0
    /\ IF dg.riskEdges = <<>>
       THEN noRiskEdges
       ELSE \E k \in 1 .. Len(dg.riskEdges) : degenerateEdge(dg.riskEdges[k])
    /\ UNCHANGED <<matrixVars, attrs, sub, ret, hubs, nodeData, hl, files, susc>>

\* ---------------------------------------------------------- degenerateNew
\* the entry of degenerateNew, up to the while loop (lines 1021-1045)
degenerateNew ==
    /\ dg.pc = "idle"
    /\ \E weightloss \in WeightLosses, edgesRemovedLimit \in {1, MaxBudget},
          weightLossLimit \in {NoLimit, MaxBudget}, riskNodes \in NodeListChoices,
          riskEdges \in RiskEdgesChoices(G), spread \in BOOLEAN,
          chosen \in G.nodes :
          LET nodeList == IF riskNodes # <<>> THEN riskNodes ELSE <<chosen>>
          IN  /\ riskNodes # <<>> => chosen = 0
              /\ dg' = [pc |-> "loop", fn |-> "degenerateNew", iter |-> 0,
                        weightloss |-> weightloss,
                        edgesRemovedLimit |-> edgesRemovedLimit,
                        weightLossLimit |-> weightLossLimit,
                        limit |-> limitOf(edgesRemovedLimit, weightLossLimit),
                        nodeList |-> nodeList,
                        riskEdges |-> IF riskEdges = <<>> THEN edges(G, nodeList)
                                      ELSE riskEdges,
                        reDefineEdges |-> FALSE,
                        spread |-> spread,
                        deadEdgesRec |-> <<>>]
              /\ call' = [op |-> "degenerateNew", given |-> riskEdges # <<>>]
    /\ raised' = "none"
    /\ UNCHANGED <<adjMat, matrixVars, attrs, G, sub, ret, hubs, nodeData, hl, files, susc>>

\* one iteration of degenerateNew on the edge random.choice picked (1063-1101)
degenerateNewEdge(dyingEdge) ==
    IF dyingEdge \notin DOMAIN G.edges
    THEN /\ call' = [op |-> "step", fn |-> "degenerateNew", edge |-> dyingEdge,
                     present |-> FALSE]
         /\ ended("KeyError")
    ELSE LET w == G.edges[dyingEdge]
             lost == lossNew(w, dg.weightloss)
             weight == new_w(w, dg.weightloss)
             tBool == weight < threshold
             nodeList == IF dg.spread THEN appended(dg.nodeList, dyingEdge)
                         ELSE dg.nodeList
             removed == tBool /\ threshold # DefaultT0Low
             limit == IF dg.weightLossLimit # NoLimit THEN dg.limit - lost
                      ELSE dg.limit - 1
         IN  /\ G' = IF removed THEN remove_edge(G, dyingEdge)
                     ELSE setWeight(G, dyingEdge, weight)
             /\ dg' = [dg EXCEPT !.iter = 1 - dg.iter,
                                 !.limit = limit,
                                 !.nodeList = nodeList,
                                 !.riskEdges = IF removed THEN pop(dg.riskEdges, dyingEdge)
                                               ELSE dg.riskEdges,
                                 !.deadEdgesRec = IF removed
                                                  THEN Append(dg.deadEdgesRec, dyingEdge)
                                                  ELSE dg.deadEdgesRec]
             /\ call' = [op |-> "step", fn |-> "degenerateNew", edge |-> dyingEdge,
                         present |-> TRUE, w |-> w, weight |-> weight,
                         removed |-> removed, before |-> dg.limit, after |-> limit]
             /\ raised' = "none"
             /\ UNCHANGED adjMat

\* while limit>0: one iteration of degenerateNew
degenerateNewLoop ==
    /\ dg.pc = "loop"
    /\ dg.fn = "degenerateNew"
    /\ dg.limit > 0
    /\ IF dg.riskEdges = <<>>
       THEN noRiskEdges
       ELSE \E k \in 1 .. Len(dg.riskEdges) : degenerateNewEdge(dg.riskEdges[k])
    /\ UNCHANGED <<matrixVars, attrs, sub, ret, hubs, nodeData, hl, files, susc>>

\* the loop test fails: reconstructAdjMat and the return of either method
degenerateReturn ==
    /\ dg.pc = "loop"
    /\ dg.limit <= 0
    /\ call' = [op |-> "return", fn |-> dg.fn]
    /\ ended("none")
    /\ UNCHANGED <<matrixVars, attrs, sub, ret, hubs, nodeData, hl, files, susc>>

\* the graphs degenerated: every node, up to MaxEdges edges, each weight at
\* or above the threshold the graph was built with
DegGraphs(t) ==
    { [nodes |-> Nodes, props |-> [n \in Nodes |-> Absent], edges |-> f] :
        f \in UNION { [E -> { w \in DegWeights : w >= t }] :
                        E \in { F \in SUBSET { p \in Nodes \X Nodes : p[1] < p[2] } :
                                   Cardinality(F) <= MaxEdges } } }

InitDegenerate ==
    /\ adjMat = NoneMat
    /\ directed = FALSE
    /\ edgeInds = <<>>
    /\ threshold \in DegThresholds
    /\ attrs = InitAttrs
    /\ G \in DegGraphs(threshold)
    /\ sub = NoSub
    /\ ret = NoRet
    /\ hubs = <<>>
    /\ nodeData = NoNodeData
    /\ hl = NoHighlight
    /\ files = NoFiles
    /\ dg = NoDeg
    /\ susc = NoSusc
    /\ call = NoCall
    /\ raised = "none"

NextDegenerate ==
    \/ degenerate
    \/ degenerateLoop
    \/ degenerateNew
    \/ degenerateNewLoop
    \/ degenerateReturn

SpecDegenerate == InitDegenerate /\ [][NextDegenerate]_vars

\* degenerate alone, with the loop running while it can and random.choice
\* fair: an edge that is in riskEdges again and again is picked in the end
NextDegenerateOnly ==
    \/ degenerate
    \/ degenerateLoop
    \/ degenerateReturn

SpecDegenerateFair ==
    /\ InitDegenerate
    /\ [][NextDegenerateOnly]_vars
    /\ WF_vars(NextDegenerateOnly)
    /\ \A e \in { p \in Nodes \X Nodes : p[1] < p[2] } :
          SF_vars(degenerateLoop /\ call'.op = "step" /\ call'.edge = e)

\* ------------------------------------------------------------ hubIdentifier
\* np.sum(a), in units of 1 / a.den
npsum(a) == SumTo(a.num, Len(a.num))

\* a /= np.sum(a) for an array of floats: entry k becomes num[k] / sum; when
\* the sum is 0 every entry is 0 and becomes 0 / 0, nan
trueDivide(a) == [num |-> a.num, den |-> npsum(a)]

\* a /= np.sum(a) for an array of integers: Python 2's / on integers is the
\* floor division, and numpy gives 0 where the divisor is 0
floorDivide(a) ==
    [num |-> [k \in 1 .. Len(a.num) |->
                 IF npsum(a) = 0 THEN 0 ELSE a.num[k] \div npsum(a)],
     den |-> 1]

\* some entry of the three arrays is nan
anyNaN(b, c, d) == b.den = 0 \/ c.den = 0 \/ d.den = 0

\* hubHelper(node): the three arrays are indexed by the node itself.  The
\* score is returned in units of 1 / (b.den * c.den * d.den).
hubHelper(b, c, d, node) ==
    LET B == ToBig(b.den)
        C == ToBig(c.den)
        D == ToBig(d.den)
    IN  BigAdd(BigAdd(BigMul(ToBig(b.num[node + 1]), BigMul(C, D)),
                      BigMul(ToBig(c.num[node + 1]), BigMul(B, D))),
               BigMul(ToBig(d.num[node + 1]), BigMul(B, C)))

\* [n for n, v in enumerate(hubScores) if v > upperLimit], with
\* upperLimit = mean + 2 * std.  In a common unit and with dev[k] =
\* n * v[k] - sum(v) = n * (v[k] - mean), std is sqrt(sum(dev^2) / n) / n, so
\* v[k] > upperLimit iff dev[k] > 0 and n * dev[k]^2 > 4 * sum(dev^2).
aboveUpperLimit(hubScores) ==
    LET n == Len(hubScores)
        total == BigSumTo(hubScores, n)
        scaled == [k \in 1 .. n |-> BigMul(ToBig(n), hubScores[k])] \o <<>>
        sq == [k \in 1 .. n |->
                  LET dev == IF BigLess(scaled[k], total)
                             THEN BigSub(total, scaled[k])
                             ELSE BigSub(scaled[k], total)
                  IN  BigMul(dev, dev)] \o <<>>
        sumSq == BigSumTo(sq, n)
        ks == SelectSeq([k \in 1 .. n |-> k],
                        LAMBDA k : /\ BigLess(total, scaled[k])
                                   /\ BigLess(BigMul(ToBig(4), sumSq),
                                              BigMul(ToBig(n), sq[k])))
    IN  [x \in 1 .. Len(ks) |-> ks[x] - 1]

\* the hub list for the normalised arrays b, c, d of the graph g; a nan score
\* makes the limit nan, which no score exceeds
hubList(g, b, c, d) ==
    IF anyNaN(b, c, d) THEN <<>>
    ELSE LET ns == ascending(g.nodes)
         IN  aboveUpperLimit([k \in 1 .. Len(ns) |-> hubHelper(b, c, d, ns[k])] \o <<>>)

\* hubIdentifier(weighted = False, assign = False)
hubIdentifier ==
    /\ call' = [op |-> "hubIdentifier", weighted |-> FALSE, assign |-> FALSE]
    /\ attrs' = attrs \cup {"betweenessCentrality", "closenessCentrality", "degrees"}
    /\ IF \E node \in G.nodes : node >= Cardinality(G.nodes)
       THEN \* hubHelper indexes past the end of the arrays
            /\ raised' = "IndexError"
            /\ hubs' = <<>>
       ELSE /\ hubs' = hubList(G, trueDivide(betweenness_centrality(G)),
                                  trueDivide(closeness_centrality(G)),
                                  floorDivide(degrees(G)))
            /\ raised' = "none"
    /\ UNCHANGED <<adjMat, matrixVars, G, sub, ret, nodeData, hl, files, dg, susc>>

\* The graphs hub identification is tried on: the connected graphs on
\* HubNodes nodes, the nodes numbered by descending degree.
HubNodeSet == 0 .. (HubNodes - 1)
HubPairs == { p \in HubNodeSet \X HubNodeSet : p[1] < p[2] }

graphOn(E) ==
    [nodes |-> HubNodeSet, props |-> [n \in HubNodeSet |-> Absent], edges |-> [e \in E |-> 1]]

connected(g) == DOMAIN single_source_shortest_path_length(g, 0) = g.nodes

byDegree(g) == \A u \in g.nodes, v \in g.nodes : u < v => degree(g, u) >= degree(g, v)

\* a brain whose graph has been built
InitHubs ==
    /\ adjMat = NoneMat
    /\ directed = FALSE
    /\ edgeInds = <<>>
    /\ threshold = 0
    /\ attrs = InitAttrs
    /\ G \in { graphOn(E) :
                 E \in { F \in SUBSET HubPairs :
                            byDegree(graphOn(F)) /\ connected(graphOn(F)) } }
    /\ sub = NoSub
    /\ ret = NoRet
    /\ hubs = <<>>
    /\ nodeData = NoNodeData
    /\ hl = NoHighlight
    /\ files = NoFiles
    /\ dg = NoDeg
    /\ susc = NoSusc
    /\ call = NoCall
    /\ raised = "none"

NextHubs == hubIdentifier

SpecHubs == InitHubs /\ [][NextHubs]_vars

\* ------------------------------------------------------ psuedohubIdentifier
\* the edgeloss a caller asks for
EdgeLosses == {1, 2}

\* the three measures both hub identifiers compute for the graph g, each
\* divided by its sum: betweenness and closeness as floats (0 / 0 is nan),
\* the degrees as integers
measures(g) ==
    [b |-> trueDivide(betweenness_centrality(g)),
     c |-> trueDivide(closeness_centrality(g)),
     d |-> floorDivide(degrees(g))]

\* a and b are the same number
BigSame(a, b) == ~BigLess(a, b) /\ ~BigLess(b, a)

\* the loop over self.G.nodes() of psuedohubIdentifier from position k on:
\* keys are the keys of hubScores, score[node] the node's hub score, nan
\* whether the scores are nan (no comparison with nan is true).  A node is
\* taken while fewer than numHubs = max(1, n * 0.05) keys are held; after
\* that a node above the lowest score held replaces the keys of that score.
RECURSIVE hubScoresFrom(_, _, _, _, _)
hubScoresFrom(ns, k, keys, score, nan) ==
    IF k > Len(ns) THEN keys
    ELSE LET node == ns[k]
             n == Len(ns)
             minKey == CHOOSE m \in keys :
                          \A x \in keys : ~BigLess(score[x], score[m])
         IN  IF Cardinality(keys) * 20 < Max(n, 20)
             THEN hubScoresFrom(ns, k + 1, keys \cup {node}, score, nan)
             ELSE IF ~nan /\ BigLess(score[minKey], score[node])
             THEN hubScoresFrom(ns, k + 1,
                                { x \in keys : ~BigSame(score[x], score[minKey]) }
                                   \cup {node},
                                score, nan)
             ELSE hubScoresFrom(ns, k + 1, keys, score, nan)

\* self.hubs after psuedohubIdentifier on the graph g with the measures m:
\* the score of a node is the sum of its three measures
psuedohubIdentifier(g, m) ==
    LET ns == ascending(g.nodes)
        nan == anyNaN(m.b, m.c, m.d)
        score == [node \in g.nodes |->
                    IF nan THEN <<>> ELSE hubHelper(m.b, m.c, m.d, node)]
    IN  ascending(hubScoresFrom(ns, 1, {}, score, nan))

\* self.hubs after hubIdentifier() on the graph g with the measures m
identified(g, m) == hubList(g, m.b, m.c, m.d)

\* ----------------------------------------------------- neuronsusceptibility
\* the entry of neuronsusceptibility, up to the while loop (lines 1211-1214)
neuronsusceptibility ==
    /\ susc.pc = "idle"
    /\ \E edgeloss \in EdgeLosses :
          /\ susc' = [pc |-> "loop", edgeloss |-> edgeloss, edgesleft |-> edgeloss,
                      lengthEdgesRemoved |-> <<>>, iter |-> 0, removed |-> 0,
                      bigconnG |-> {},
                      edgesAtEntry |-> Cardinality(DOMAIN G.edges)]
          /\ call' = [op |-> "neuronsusceptibility", edgeloss |-> edgeloss]
    /\ raised' = "none"
    /\ UNCHANGED <<adjMat, matrixVars, attrs, G, sub, ret, hubs, nodeData, hl, files, dg>>

\* the statements after the loop (lines 1249-1255): the graph is g by
\* then, and the argument largestconnectedcomp is read here for the first
\* time; bigconnG is a largest component, as its set of nodes
finished(g) ==
    /\ \E largestconnectedcomp \in BOOLEAN,
          comp \in { c \in connected_component_subgraphs(g) :
                       \A x \in connected_component_subgraphs(g) :
                          Cardinality(x) <= Cardinality(c) } :
          susc' = [susc EXCEPT !.pc = "done", !.iter = susc.iter + 1,
                               !.bigconnG = IF largestconnectedcomp
                                            THEN comp ELSE {}]
    /\ adjMat' = reconstructed(g)

\* one iteration of 'while edgesleft > 0' (lines 1216-1247)
neuronsusceptibilityLoop ==
    /\ susc.pc = "loop"
    /\ susc.edgesleft > 0
    /\ attrs' = attrs \cup {"betweenessCentrality", "closenessCentrality", "degrees"}
    /\ raised' = "none"
    /\ LET m == measures(G)
           h1 == identified(G, m)
           h2 == IF edges(G, h1) = <<>> THEN psuedohubIdentifier(G, m) ELSE h1
       IN  IF edges(G, h2) # <<>>
           THEN \* edgetoremove = random.choice(self.G.edges(self.hubs))
                \E k \in 1 .. Len(edges(G, h2)) :
                   LET edgetoremove == edges(G, h2)[k]
                   IN  /\ G' = remove_edge(G, edgetoremove)
                       /\ hubs' = h2
                       /\ susc' = [susc EXCEPT !.edgesleft = susc.edgesleft - 1,
                                               !.removed = susc.removed + 1]
                       /\ call' = [op |-> "removal", edge |-> edgetoremove,
                                   hubs |-> h2, pseudo |-> h2 # h1]
                       /\ UNCHANGED adjMat
           ELSE \* random.choice of an empty list raises: the except branch
                LET h3 == identified(G, m)
                    h4 == IF edges(G, h3) = <<>> THEN psuedohubIdentifier(G, m) ELSE h3
                IN  /\ hubs' = h4
                    /\ G' = G
                    /\ IF edges(G, h4) = <<>>
                       THEN /\ call' = [op |-> "break", hubs |-> h4]
                            /\ finished(G)
                       ELSE /\ call' = [op |-> "continue", hubs |-> h4]
                            /\ UNCHANGED <<susc, adjMat>>
    /\ UNCHANGED <<matrixVars, sub, ret, nodeData, hl, files, dg>>

\* the loop test fails: the statements after the loop (lines 1249-1255)
neuronsusceptibilityReturn ==
    /\ susc.pc = "loop"
    /\ susc.edgesleft <= 0
    /\ call' = [op |-> "return", hubs |-> hubs]
    /\ raised' = "none"
    /\ finished(G)
    /\ UNCHANGED <<matrixVars, attrs, G, sub, ret, hubs, nodeData, hl, files, dg>>

\* The graphs the model is run on: HubNodes nodes, node 0 joined to all of
\* the others, to all but the last or to none, with or without the edge
\* (1, 2).  They hold the star, whose centre is a hub, graphs without a hub,
\* and graphs whose pseudo-hub has no edge.
SusceptibleEdges ==
    { { p \in HubPairs : (p[1] = 0 /\ p[2] <= j) \/ (chord /\ p = <<1, 2>>) } :
        j \in {0, HubNodes - 2, HubNodes - 1}, chord \in BOOLEAN }

InitSusceptibility ==
    /\ adjMat = NoneMat
    /\ directed = FALSE
    /\ edgeInds = <<>>
    /\ threshold = 0
    /\ attrs = InitAttrs
    /\ G \in { graphOn(E) : E \in SusceptibleEdges }
    /\ sub = NoSub
    /\ ret = NoRet
    /\ hubs = <<>>
    /\ nodeData = NoNodeData
    /\ hl = NoHighlight
    /\ files = NoFiles
    /\ dg = NoDeg
    /\ susc = NoSusc
    /\ call = NoCall
    /\ raised = "none"

NextSusceptibility ==
    \/ neuronsusceptibility
    \/ neuronsusceptibilityLoop
    \/ neuronsusceptibilityReturn

SpecSusceptibility == InitSusceptibility /\ [][NextSusceptibility]_vars

\* ======================================================================
\* Properties of applyThreshold (checked under SpecThreshold)
\* ======================================================================
Idx(M) == 0 .. (M.n - 1)

\* the pair [i, j] is in self.edgeInds
InEdgeInds(i, j) == \E x \in 1 .. Len(edgeInds) : edgeInds[x] = <<i, j>>

\* the finite entries of M, as positions
FinitePos(M) == { k \in 1 .. Len(M.a) : ~IsNaN(M.a[k]) }

\* the last call was applyThreshold and it returned
Thresholded == call.op = "applyThreshold" /\ raised = "none"

\* M[i, j] = M[j, i] throughout (a missing entry mirrored by a missing entry)
Symmetric(M) == \A i \in Idx(M), j \in Idx(M) : At(M, i, j) = At(M, j, i)

\* C1: after applyThreshold with only an absolute threshold t, edgeInds holds
\* (i, j), i # j, iff M[i, j] >= t; it holds no (i, i) whatever the diagonal
\* is, and a missing entry gives no edge.
C1_AbsoluteThreshold ==
    (Thresholded /\ call.edgePC = 0 /\ call.totalEdges = 0) =>
        /\ threshold = call.tVal
        /\ \A i \in Idx(adjMat), j \in Idx(adjMat) :
              InEdgeInds(i, j) <=>
                  (i # j /\ ~IsNaN(At(adjMat, i, j)) /\ At(adjMat, i, j) >= call.tVal)

\* C1's case: an absolute threshold met by a diagonal entry and by an
\* off-diagonal one, the matrix also missing off-diagonal entries
C1_Witness ==
    /\ Thresholded /\ call.edgePC = 0 /\ call.totalEdges = 0
    /\ \E i \in Idx(adjMat) : Ge(At(adjMat, i, i), call.tVal)
    /\ \E i \in Idx(adjMat), j \in Idx(adjMat) : i # j /\ IsNaN(At(adjMat, i, j))
    /\ Len(edgeInds) = 1

\* C2 (as claimed): for an undirected brain, applyThreshold(edgePC = p) puts
\* exactly round(p/100 * N * (N-1)) pairs in edgeInds whenever the matrix has
\* at least that many finite entries.
C2_PercentEdgeCount ==
    (Thresholded /\ ~directed /\ call.edgePC # 0
       /\ round(call.edgePC * adjMat.n * (adjMat.n - 1), 100)
              <= Cardinality(FinitePos(adjMat))) =>
        Len(edgeInds) = round(call.edgePC * adjMat.n * (adjMat.n - 1), 100)

\* C3 (as claimed): under the percentage policy the edge count computed is
\* round(edgePC/100 * N * (N-1) * c), c = 0.5 undirected and c = 1 directed.
C3_PercentFactor ==
    (Thresholded /\ call.edgePC # 0) =>
        call.edgeNum =
            IF directed THEN round(call.edgePC * adjMat.n * (adjMat.n - 1), 100)
                        ELSE round(call.edgePC * adjMat.n * (adjMat.n - 1), 200)

\* C4 (as claimed): under the percentage and fixed-count policies, on a matrix
\* whose finite entries are pairwise distinct, a computed count k with
\* 0 <= k <= (number of finite entries) gives a cutoff that exactly k finite
\* entries reach (none for k = 0); a larger k gives the minimum finite entry.
C4_CutoffSelectsK ==
    (Thresholded /\ call.edgeNum >= 0
       /\ \A k1 \in FinitePos(adjMat), k2 \in FinitePos(adjMat) :
              k1 # k2 => adjMat.a[k1] # adjMat.a[k2]) =>
        LET F == FinitePos(adjMat)
        IN  IF call.edgeNum <= Cardinality(F)
            THEN Cardinality({ k \in F : adjMat.a[k] >= threshold }) = call.edgeNum
            ELSE \A k \in F : threshold <= adjMat.a[k]

\* C5 (as claimed): for an undirected brain with a symmetric matrix, edgeInds
\* never holds both (i, j) and (j, i).
C5_OneDirectionOnly ==
    (Thresholded /\ ~directed /\ Symmetric(adjMat)) =>
        \A i \in Idx(adjMat), j \in Idx(adjMat) :
            ~(InEdgeInds(i, j) /\ InEdgeInds(j, i))

\* C5 (amended): for an undirected brain with a symmetric matrix, edgeInds
\* holds (i, j) exactly when it holds (j, i), each at one position only: an
\* unordered pair appears twice (once per direction) or not at all.
C5_BothDirections ==
    (Thresholded /\ ~directed /\ Symmetric(adjMat)) =>
        /\ \A i \in Idx(adjMat), j \in Idx(adjMat) :
              InEdgeInds(i, j) <=> InEdgeInds(j, i)
        /\ \A x \in 1 .. Len(edgeInds), y \in 1 .. Len(edgeInds) :
              edgeInds[x] = edgeInds[y] => x = y

\* C5's case: a symmetric matrix that yields edges
C5_Witness ==
    /\ Thresholded /\ ~directed /\ Symmetric(adjMat)
    /\ Len(edgeInds) = 2

\* ======================================================================
\* Properties of the graph operations (checked under SpecGraph)
\* ======================================================================
\* the weighted edges of g
Weighted(g) == { e \in DOMAIN g.edges : g.edges[e] # NoW }

\* C6: after reconstructAdjMat on an undirected brain with N nodes the matrix
\* is N x N and symmetric, holds w at [i, j] and [j, i] for every edge (i, j)
\* of weight w, and 0 at every position that is not an edge.
C6_ReconstructSymmetric ==
    (call.op = "reconstructAdjMat" /\ ~directed) =>
        /\ adjMat.n = Cardinality(G.nodes)
        /\ Len(adjMat.a) = adjMat.n * adjMat.n
        /\ Symmetric(adjMat)
        /\ \A e \in Weighted(G) :
              /\ At(adjMat, e[1], e[2]) = G.edges[e]
              /\ At(adjMat, e[2], e[1]) = G.edges[e]
        /\ \A i \in Idx(adjMat), j \in Idx(adjMat) :
              Edge(i, j) \notin DOMAIN G.edges => At(adjMat, i, j) = 0

\* C6's case: a matrix rebuilt from a graph with edges of different weights
C6_Witness ==
    /\ call.op = "reconstructAdjMat" /\ ~directed
    /\ \E e \in DOMAIN G.edges, f \in DOMAIN G.edges : G.edges[e] = 1 /\ G.edges[f] = 2
    /\ \E i \in Idx(adjMat), j \in Idx(adjMat) : i # j /\ Edge(i, j) \notin DOMAIN G.edges

\* C7: binarise leaves the edge set (and the nodes) as they were and gives
\* every edge weight 1; called again it changes nothing.
C7_BinarisePreservesEdges ==
    [][ (call'.op = "binarise") =>
            /\ DOMAIN G'.edges = DOMAIN G.edges
            /\ G'.nodes = G.nodes
            /\ \A e \in DOMAIN G'.edges : G'.edges[e] = 1
            /\ (call.op = "binarise" => G' = G) ]_vars

\* C7's case: binarise has run on edges one of which had weight 2 (the matrix
\* rebuilt from them before the call still shows it)
C7_Witness ==
    /\ call.op = "binarise"
    /\ Cardinality(DOMAIN G.edges) = MaxEdges
    /\ adjMat.n = Cardinality(G.nodes)
    /\ \E e \in DOMAIN G.edges : At(adjMat, e[1], e[2]) = 2

\* C8 (as claimed): percentConnected returns (number of edges) / (N(N-1)) for
\* a directed brain and (number of edges) / (N(N-1)/2) for an undirected one.
C8_PercentConnected ==
    (call.op = "percentConnected" /\ Cardinality(G.nodes) >= 2) =>
        /\ raised = "none"
        /\ LET n == Cardinality(G.nodes)
               pairs == IF directed THEN n * (n - 1) ELSE (n * (n - 1)) \div 2
           IN  ret[1] * pairs = Cardinality(DOMAIN G.edges) * ret[2]

\* ======================================================================
\* Properties of hubIdentifier (checked under SpecHubs)
\* ======================================================================
\* the hub list the stated rule gives: each of the three measures divided by
\* its sum
statedHubs(g) ==
    hubList(g, trueDivide(betweenness_centrality(g)),
               trueDivide(closeness_centrality(g)),
               trueDivide(degrees(g)))

\* every entry of the array equals the first
allEqual(a) == \A k \in 1 .. Len(a.num) : a.num[k] = a.num[1]

\* C9 (as claimed): hubIdentifier sets hubs to exactly the nodes whose
\* composite score, the sum of the three sum-normalised measures, is strictly
\* above mean + 2 * std of the composite scores; when all nodes have the same
\* betweenness, closeness and degree the hub list is empty, and the call ends
\* without error.
C9_HubsAboveTwoSigma ==
    (call.op = "hubIdentifier") =>
        /\ raised = "none"
        /\ hubs = statedHubs(G)
        /\ (allEqual(betweenness_centrality(G)) /\ allEqual(closeness_centrality(G))
               /\ allEqual(degrees(G))) => hubs = <<>>

\* ======================================================================
\* Properties of makeSubBrain (checked under SpecSub)
\* ======================================================================
\* the property is a number within [lo, hi]
InRange(pv, lo, hi) == pv.kind = "num" /\ lo <= pv.v /\ pv.v <= hi

RangeCall == call.op = "makeSubBrain" /\ call.value.kind = "range"

\* C10: makeSubBrain(propName, {min, max}) returns a brain whose nodes are
\* exactly the parent nodes with propName in [min, max] (nodes without the
\* property excluded) and whose edges are exactly the parent edges with both
\* endpoints among them; the parent's graph is not changed.
C10_SubBrainRange ==
    [][ (call'.op = "makeSubBrain" /\ call'.value.kind = "range") =>
            /\ sub'.G.nodes =
                  { n \in G.nodes :
                      InRange(propOf(G, n, call'.propName), call'.value.min, call'.value.max) }
            /\ DOMAIN sub'.G.edges =
                  { e \in DOMAIN G.edges : e[1] \in sub'.G.nodes /\ e[2] \in sub'.G.nodes }
            /\ G' = G ]_vars

\* C10's case: a range call that keeps a node at each end of the range and an
\* edge, and drops a node and an edge
C10_Witness ==
    /\ RangeCall
    /\ \E n \in sub.G.nodes, m \in sub.G.nodes :
          G.props[n].v = call.value.min /\ G.props[m].v = call.value.max
    /\ sub.G.nodes # G.nodes
    /\ DOMAIN sub.G.edges # {}
    /\ DOMAIN sub.G.edges # DOMAIN G.edges

\* the position of the node v among the nodes of g in ascending order, from 0
rank(g, v) == Cardinality({ u \in g.nodes : u < v })

\* the matrix M holds w at [i, j] and [j, i]
HoldsBothWays(M, i, j, w) ==
    /\ inBounds(M, i, j)
    /\ At(M, i, j) = w
    /\ At(M, j, i) = w

\* C11 (as claimed): in a sub-brain made by makeSubBrain with a range or value
\* filter, every retained edge has the weight it has in the parent, and the
\* sub-brain's matrix holds that weight at the edge's positions (taken at the
\* node indices, or at the nodes' positions among the retained nodes).
C11_SubBrainKeepsWeights ==
    (call.op = "makeSubBrain" /\ call.value.kind # "any") =>
        \A e \in DOMAIN sub.G.edges :
            /\ sub.G.edges[e] = G.edges[e]
            /\ \/ HoldsBothWays(sub.adjMat, e[1], e[2], G.edges[e])
               \/ HoldsBothWays(sub.adjMat, rank(sub.G, e[1]), rank(sub.G, e[2]), G.edges[e])

\* the edge attribute matches the filter: within [min, max] for a range, equal
\* to one of the values otherwise
EdgeMatches(g, e, propName, value) ==
    LET v == edgeProp(g, e, propName)
    IN  IF value.kind = "range" THEN InRange(v, value.min, value.max)
        ELSE v \in value.vals

\* C12 (as claimed): makeSubBrainEdges(propName, value) returns a brain with
\* all of the parent's nodes and exactly the parent edges whose attribute
\* propName matches the filter, for a {min, max} range and for a value or list
\* of values alike.
C12_SubBrainEdges ==
    (call.op = "makeSubBrainEdges") =>
        /\ sub.G.nodes = G.nodes
        /\ DOMAIN sub.G.edges =
              { e \in DOMAIN G.edges : EdgeMatches(G, e, call.propName, call.value) }


\* ------------------------------------------------------------ C13
\* the data rows as stated: the lines from line N (1-based) on when a line
\* holds 'begins line' and the digit N, every line otherwise
StatedRows(reader) ==
    LET hs == { k \in 1 .. Len(reader) : reader[k].begins # -1 }
    IN IF hs = {} THEN reader
       ELSE LET h == CHOOSE k \in hs : \A m \in hs : k <= m
            IN SubSeq(reader, reader[h].begins, Len(reader))

AllData(rows) == \A r \in 1 .. Len(rows) : rows[r].kind = "data"

\* C13: after getAdjFile on a file whose stated data rows are rows of tokens,
\* the matrix has one row per data row, its entry at row r, column c is the
\* missing-value sentinel exactly where the token there is "NA" or "nan", and
\* the token's number everywhere else
C13_AdjFileParsed ==
    (call.op = "getAdjFile" /\ AllData(StatedRows(call.file)))
    => LET rows == StatedRows(call.file)
       IN /\ raised = "none"
          /\ adjMat # NoneMat
          /\ adjMat.n = Len(rows)
          /\ Len(adjMat.a) = adjMat.n * adjMat.n
          /\ \A r \in 1 .. Len(rows) : \A c \in 1 .. Len(rows[r].toks) :
                LET tok == rows[r].toks[c]
                    x == adjMat.a[Pos(adjMat.n, r - 1, c - 1)]
                IN IF tok \in {TokNA, TokNan} THEN IsNaN(x)
                   ELSE ~IsNaN(x) /\ x = tok.v

\* a file with a header naming a later line, holding a "nan" and a number, read
C13_Witness ==
    /\ call.op = "getAdjFile"
    /\ raised = "none"
    /\ \E k \in 1 .. Len(call.file) : call.file[k].begins >= 2
    /\ AllData(StatedRows(call.file))
    /\ \E r \in 1 .. Len(StatedRows(call.file)) :
          \E c \in 1 .. Len(StatedRows(call.file)[r].toks) :
             StatedRows(call.file)[r].toks[c] = TokNan
    /\ \E k \in 1 .. Len(adjMat.a) : ~IsNaN(adjMat.a[k])


\* ------------------------------------------------------------ C14, C15
\* the graph a threshold t realizes on the matrix M: an edge for every pair
\* of distinct nodes with an entry of at least t between them
graphAt(M, t) ==
    LET E == { Edge(i, j) : <<i, j>> \in
                 { p \in (0 .. M.n - 1) \X (0 .. M.n - 1) :
                     p[1] # p[2] /\ Ge(At(M, p[1], p[2]), t) } }
    IN  [nodes |-> 0 .. M.n - 1, props |-> [n \in 0 .. M.n - 1 |-> Absent],
         edges |-> [e \in E |-> 1]]

componentsAt(M, t) == Cardinality(connected_component_subgraphs(graphAt(M, t)))

\* the call was checkrobustnessNew in threshold mode on a matrix that is one
\* component at t0low and more than one at the current threshold
RobustCase ==
    /\ call.op = "checkrobustnessNew"
    /\ ~call.edgePCBool
    /\ adjMat # NoneMat
    /\ componentsAt(adjMat, call.t0low) = 1
    /\ componentsAt(adjMat, call.oldThr) > 1

\* C14: in that case checkrobustnessNew returns a value r (ret[1] / ret[2],
\* tenths) and the component count goes from 1 to 2 at a threshold within
\* 10^-decs (one tenth, decs being 1) of r
C14_RobustnessValue ==
    RobustCase
    => /\ raised = "none"
       /\ ret # NoRet
       /\ \E t \in (call.t0low + 1) .. (call.oldThr + 1) :
             /\ (t - 1) * ret[2] <= ret[1] /\ ret[1] <= (t + 1) * ret[2]
             /\ componentsAt(adjMat, t - 1) = 1
             /\ componentsAt(adjMat, t) = 2

\* C15: however a call of checkrobustnessNew ends, the threshold and the
\* edges of the graph are what they were before the call
C15_RobustnessRestores ==
    call.op = "checkrobustnessNew"
    => /\ threshold = call.oldThr
       /\ G.edges = call.oldG.edges


\* ------------------------------------------------------------ C16
\* the call was contiguousspread, it got to build its at-risk list, and the
\* list was never empty with steps still to do
SpreadCase ==
    /\ call.op = "contiguousspread"
    /\ raised \notin {"TypeError", "KeyError"}
    /\ ~call.emptied

RECURSIVE statedIndices(_, _)
statedIndices(inds, es) ==
    IF Len(es) = 0 THEN <<>>
    ELSE LET at == { k \in 1 .. Len(inds) : sameNumbers(inds[k], Head(es)) }
         IN  IF at = {} THEN statedIndices(inds, Tail(es))
             ELSE <<(CHOOSE k \in at : \A m \in at : k <= m) - 1>>
                    \o statedIndices(inds, Tail(es))

\* C17: after getEdgeInds(brain) on a highlight holding a list of pairs, no
\* error was raised, the index cache holds the positions in brain.edgeInds of
\* the stored pairs present there, in the order of the stored pairs, and
\* brain.edgeInds is what it was
C17_EdgeIndsCache ==
    (call.op = "getEdgeInds" /\ ~hl.edges.none)
    => /\ raised = "none"
       /\ hl.edgeIndices = statedIndices(edgeInds, hl.edges.items)
       /\ edgeInds = call.edgeInds

\* C18: constructing a highlight from points and edges of which one at least
\* is non-empty completes and leaves mode 'pe' for both, 'p' for points
\* alone and 'e' for edges alone
C18_HighlightMode ==
    (call.op = "highlight" /\ (truthy(call.points) \/ truthy(call.edges)))
    => /\ raised = "none"
       /\ hl.made
       /\ hl.points = call.points /\ hl.edges = call.edges
       /\ hl.mode = IF truthy(call.points) /\ truthy(call.edges) THEN "pe"
                    ELSE IF truthy(call.points) THEN "p"
                    ELSE "e"


\* ------------------------------------------------------------ C19
\* how often w is in the sequence s
Count(s, w) == Cardinality({ k \in 1 .. Len(s) : s[k] = w })

\* how many edges of G weigh w
EdgesOfWeight(w) == Cardinality({ e \in DOMAIN G.edges : (IF G.edges[e] = NoW THEN DefaultWeight ELSE G.edges[e]) = w })

\* C19: handed a graph or a Brain, plot_weight_distribution gives the
\* histogram a sample that holds every edge weight once (the finite entries
\* above the diagonal of the dense matrix) for an undirected input, and twice
\* (those below the diagonal as well) for a directed brain
C19_WeightSample ==
    (call.op = "plot_weight_distribution" /\ call.brain.type \in {"Graph", "Brain"})
    => /\ raised = "none"
       /\ \A w \in EdgeWeights \cup {DefaultWeight} :
             Count(call.sample, w) =
                (IF call.brain.directed = "True" THEN 2 ELSE 1) * EdgesOfWeight(w)
       /\ Len(call.sample) =
             (IF call.brain.directed = "True" THEN 2 ELSE 1) * Cardinality(DOMAIN G.edges)


\* ------------------------------------------------------------ C20
\* C20: after updateAdjMat((i, j)) on a brain with a matrix and an edge
\* (i, j) of weight w, the matrix holds w at [i, j] and at [j, i] and every
\* other entry is what it was
C20_UpdateAdjMat ==
    (/\ call.op = "updateAdjMat"
     /\ call.adjMat # NoneMat
     /\ inBounds(call.adjMat, call.edge[1], call.edge[2])
     /\ Edge(call.edge[1], call.edge[2]) \in DOMAIN G.edges
     /\ G.edges[Edge(call.edge[1], call.edge[2])] # NoW)
    => LET i == call.edge[1]
           j == call.edge[2]
           w == G.edges[Edge(i, j)]
       IN  /\ raised = "none"
           /\ adjMat.n = call.adjMat.n
           /\ At(adjMat, i, j) = w
           /\ At(adjMat, j, i) = w
           /\ \A r \in 0 .. (adjMat.n - 1) : \A c \in 0 .. (adjMat.n - 1) :
                 (<<r, c>> \notin {<<i, j>>, <<j, i>>})
                 => At(adjMat, r, c) = At(call.adjMat, r, c)


\* ------------------------------------------------------------ C21
\* a well-formed line: an integer node index and a value
WellFormed(l) == l.first = "int" /\ l.hasVal

\* C21: after nodePropertiesFromFile the call has not failed, every node
\* named by a well-formed line holds the value of the last such line, and
\* every other node holds what it held before, whatever malformed lines
\* stand between
C21_MalformedLinesSkipped ==
    call.op = "nodePropertiesFromFile"
    => /\ raised = "none"
       /\ G.nodes = call.oldG.nodes
       /\ \A n \in G.nodes :
             LET at == { k \in 1 .. Len(call.data) :
                           WellFormed(call.data[k]) /\ call.data[k].i = n }
             IN  IF at = {} THEN G.props[n] = call.oldG.props[n]
                 ELSE G.props[n] = call.data[CHOOSE k \in at : \A m \in at : m <= k].v


\* ------------------------------------------------------------ C22
\* the log is the header line followed by one data row
HeaderAndRow(f) == Len(f) = 2 /\ f[1] = HeaderLine /\ f[2].kind = "row"

\* C22: a robustness call does not fail and, with append False on an
\* existing log, moves the log to .old and leaves a new log of the header
\* and one row; with no log, creates the header and one row; with append
\* True on an existing log, adds one row after the lines that were there
C22_RobustnessLog ==
    call.op = "robustness"
    => /\ raised = "none"
       /\ IF ~exists(call.files.log)
          THEN HeaderAndRow(files.log) /\ files.old = call.files.old
          ELSE IF ~call.append
          THEN files.old = call.files.log /\ HeaderAndRow(files.log)
          ELSE /\ Len(files.log) = Len(call.files.log) + 1
               /\ SubSeq(files.log, 1, Len(call.files.log)) = call.files.log
               /\ files.log[Len(files.log)].kind = "row"
               /\ files.old = call.files.old


\* ------------------------------------------------------------ C26
\* C26: when contiguousspread finds its at-risk list empty with steps still
\* to do, after a step or before the first, it does not fail and returns
\* the toxic list reached and the history recorded so far
C26_SpreadStopsEarly ==
    (/\ call.op = "contiguousspread"
     /\ raised \notin {"TypeError", "KeyError"}
     /\ call.emptied)
    => /\ raised = "none"
       /\ Len(call.toxicNodeRecord) >= 1
       /\ call.toxicNodeRecord[1] = call.startNodes
       /\ call.toxicNodeRecord[Len(call.toxicNodeRecord)] = call.toxicNodes

\* ======================================================================
\* Properties of degenerate and degenerateNew (checked under SpecDegenerate)
\* ======================================================================
\* the last iteration was one of degenerate that read the weight of its edge
DegenerateStep == call.op = "step" /\ call.fn = "degenerate" /\ call.present

\* C23: a step of degenerate changes the weight w of the selected edge to 0
\* when |w| < weightloss, to w - weightloss when w > 0 and to w + weightloss
\* when w < 0; the weight the edge is left with (if the edge stays) is that
\* value, it has not changed sign and its magnitude has not grown.
C23_DegenerateWeight ==
    DegenerateStep =>
        LET w == call.w
            weightloss == dg.weightloss
            stated == IF Abs(w) < weightloss THEN 0
                      ELSE IF w > 0 THEN w - weightloss
                      ELSE w + weightloss
        IN  /\ call.weight = stated
            /\ ~call.removed => G.edges[call.edge] = stated
            /\ (w >= 0 => call.weight >= 0) /\ (w <= 0 => call.weight <= 0)
            /\ Abs(call.weight) <= Abs(w)

\* a negative weight at least weightloss in magnitude has been raised
C23_Witness ==
    /\ DegenerateStep
    /\ call.w < 0
    /\ Abs(call.w) >= dg.weightloss
    /\ G.edges[call.edge] = call.w + dg.weightloss

\* C24: the budget of degenerate is the weight-loss limit when one is given
\* and the edge-removal limit otherwise; a step in edge-removal mode lowers
\* it by one exactly when it removes the edge, a step in weight-loss mode
\* lowers it by the amount of weight taken from the edge, and no step
\* raises it.
C24_DegenerateBudget ==
    /\ call.op = "degenerate" =>
          dg.limit = IF dg.weightLossLimit # NoLimit THEN dg.weightLossLimit
                     ELSE dg.edgesRemovedLimit
    /\ DegenerateStep =>
          /\ dg.weightLossLimit = NoLimit =>
                call.after = IF call.removed THEN call.before - 1 ELSE call.before
          /\ dg.weightLossLimit # NoLimit =>
                call.after = call.before - Abs(call.w - call.weight)
          /\ call.after <= call.before

\* C30: every edge degenerate or degenerateNew selects is an edge of the
\* graph at that moment: an edge removed earlier in the run is not selected
\* again, whether riskEdges was derived or given by the caller.
C30_SelectedEdgePresent ==
    call.op = "step" => call.present

\* C28: degenerateNew with an edge-removal limit k and no weight-loss limit
\* goes on until k edges have been removed or no candidate is left: when it
\* returns by the loop test, k edges have been removed.
C28_NewBudgetCountsRemovals ==
    (/\ call.op = "return"
     /\ call.fn = "degenerateNew"
     /\ dg.weightLossLimit = NoLimit)
        => Len(dg.deadEdgesRec) = dg.edgesRemovedLimit

\* C25: degenerate always terminates: whatever the budget, the weightloss,
\* the graph threshold and the signs of the weights, a call whose loop has
\* been entered ends (checked under SpecDegenerateFair).
C25_DegenerateTerminates ==
    (dg.pc = "loop" /\ dg.fn = "degenerate") ~> (dg.pc = "done")

\* ======================================================================
\* Properties of neuronsusceptibility (checked under SpecSusceptibility)
\* ======================================================================
\* what holds of neuronsusceptibility(edgeloss = k) in every state
SusceptibilityCounts ==
    /\ susc.pc # "idle" =>
          /\ susc.removed <= susc.edgeloss
          /\ susc.removed + susc.edgesleft = susc.edgeloss
          /\ Cardinality(DOMAIN G.edges) = susc.edgesAtEntry - susc.removed
    /\ call.op = "removal" =>
          /\ call.hubs = hubs
          /\ call.edge \notin DOMAIN G.edges
          /\ call.edge[1] \in Range(hubs) \/ call.edge[2] \in Range(hubs)
    /\ (susc.pc = "done" /\ susc.removed < susc.edgeloss) =>
          /\ call.op = "break"
          /\ edges(G, identified(G, measures(G))) = <<>>
          /\ edges(G, psuedohubIdentifier(G, measures(G))) = <<>>

\* one iteration of the loop either lowers edgesleft, which the loop test
\* keeps above 0, or ends the call
SusceptibilityVariant ==
    susc.pc = "loop" =>
        \/ susc'.pc = "done"
        \/ susc'.pc = "loop" /\ susc'.edgesleft < susc.edgesleft

\* C27: neuronsusceptibility(edgeloss = k) never removes more than k edges,
\* removes only edges with an end in the hub list of that moment, ends with
\* fewer than k removals only when neither the hubs nor the pseudo-hubs of
\* the graph have an edge (so with exactly k when there is one at every
\* step), and its loop always ends: every iteration lowers the number of
\* edges left to remove or ends the call.
C27_Susceptibility ==
    /\ []SusceptibilityCounts
    /\ [][SusceptibilityVariant]_vars

\* a call that removed its two edges and returned
C27_Witness ==
    /\ susc.pc = "done"
    /\ susc.edgeloss = 2
    /\ susc.removed = 2
    /\ Cardinality(DOMAIN G.edges) = susc.edgesAtEntry - 2

====
